---- MODULE Spec2Model ----
(***************************************************************************)
(* A model of the scenario metadata extraction code of ScenarioIndex       *)
(* (src/file_scanner.py): the CWFile binary reader, the Summary.wsm        *)
(* decoder (SummaryFileReader, Step, Flag), the container dispatch         *)
(* (extract_info_from_scenario, parse_summary_from_zip,                    *)
(* parse_summary_from_folder) and the folder scan                          *)
(* (find_files_with_content).                                              *)
(*                                                                         *)
(* Bytes are the naturals 0..255 and a byte stream is a sequence of them.  *)
(* Text is a sequence of Unicode code points.  A Python exception is the   *)
(* name of its class; "none" means no exception is in flight.              *)
(***************************************************************************)
EXTENDS Integers, Sequences, FiniteSets, TLC

VARIABLES
    cw,            \* the CWFile under test: stream, cursor, exception in flight
    ret,           \* what the last CWFile primitive returned, and the cursor around it
    summary,       \* the outcome of SummaryFileReader.read_summary_data on cw
    origin,        \* where cw's stream comes from: the fields it was written from,
                   \* and whether it is a cut of a stream that decoded
    walk,          \* the files os.walk enumerates, in enumeration order
    pc,            \* where find_files_with_content is
    idx,           \* index of the next file (first loop) or zip (second loop)
    zip_files,     \* find_files_with_content.zip_files
    files,         \* find_files_with_content.files
    raised,        \* the exception that left find_files_with_content, or "none"
    folder,        \* the directory parse_summary_from_folder is called on
    folderResult,  \* what parse_summary_from_folder returned / raised
    warned,        \* how parse_summary_from_folder surfaced its warning
    handles,       \* per decode call so far, the handles it opened and their state
    arg,           \* the argument of the text function being applied
    out,           \* what the text function returned / raised
    handlers,      \* the JapaneseZipHandler objects: archive, cached encoding
    viewer,        \* FileViewer: paging state and the data it pages over
    db             \* DatabaseManager: the rows of the files table

vars == <<cw, ret, summary, origin, walk, pc, idx, zip_files, files, raised,
          folder, folderResult, warned, handles, arg, out, handlers, viewer, db>>

(***************************************************************************)
(* Bounds of the model.                                                    *)
(***************************************************************************)
MaxSteps == 1      \* Steps in a generated Summary.wsm
MaxFlags == 1      \* Flags in a generated Summary.wsm
MaxTrail == 8      \* bytes that follow the record in a generated stream
MaxFiles == 2      \* files a walked folder tree holds
MaxCount == 4      \* characters of one script class in a text
MaxCalls == 2      \* decode calls made one after the other
MaxEntries == 2    \* entries of an archive a JapaneseZipHandler is opened on
MaxDetections == 2 \* runs of detect_filename_encoding on one handler
MaxPages == 3      \* pages the catalog of a FileViewer fills
MaxScanned == 2    \* records one scan of a folder returns

(***************************************************************************)
(* Python values.                                                          *)
(***************************************************************************)
PyNone == [t |-> "None"]
PyInt(n) == [t |-> "int", v |-> n]
PyStr(s) == [t |-> "str", v |-> s]
PyBytes(b) == [t |-> "bytes", v |-> b]
PyBool(b) == [t |-> "bool", v |-> b]

Min(a, b) == IF a <= b THEN a ELSE b

\* "Unknown" as code points.
Unknown == <<85, 110, 107, 110, 111, 119, 110>>

(***************************************************************************)
(* encodewrap (file_scanner.py 25-39): backslash doubled, LF written as    *)
(* backslash 'n', CR dropped.                                              *)
(***************************************************************************)
MinOf(S) == CHOOSE x \in S : \A y \in S : x <= y
MaxOf(S) == CHOOSE x \in S : \A y \in S : x >= y

\* The loop copies the characters up to the next one it rewrites.
RECURSIVE encodewrap(_)
encodewrap(s) ==
    LET special == {i \in 1..Len(s) : s[i] \in {92, 10, 13}}
    IN  IF special = {} THEN s
        ELSE LET k == MinOf(special)
                 r == IF s[k] = 92 THEN <<92, 92>>
                      ELSE IF s[k] = 10 THEN <<92, 110>>
                      ELSE <<>>
             IN  SubSeq(s, 1, k - 1) \o r \o encodewrap(SubSeq(s, k + 1, Len(s)))

(***************************************************************************)
(* str(s, "cp932", "replace") (file_scanner.py 98).  Single bytes: ASCII   *)
(* maps to itself, A1..DF to the half-width katakana block, 80/A0/FD..FF   *)
(* to the code points the Python codec gives them.  A lead byte (81..9F,   *)
(* E0..FC) followed by a valid trail byte is one double-byte character;    *)
(* the JIS table itself is not modelled beyond the two pairs named here,   *)
(* any other pair stands for its own distinct code point above the BMP.    *)
(* A lead byte with no valid trail byte decodes to U+FFFD and the next     *)
(* byte is decoded again.                                                  *)
(***************************************************************************)
IsLeadByte(b) == (b >= 129 /\ b <= 159) \/ (b >= 224 /\ b <= 252)
IsTrailByte(b) == b >= 64 /\ b <= 252 /\ b /= 127

Cp932Single(b) ==
    IF b < 128 THEN b
    ELSE IF b = 128 THEN 128
    ELSE IF b = 160 THEN 63728
    ELSE IF b >= 161 /\ b <= 223 THEN 65377 + (b - 161)
    ELSE 63729 + (b - 253)

Cp932Pair(lead, trail) ==
    IF lead = 129 /\ trail = 64 THEN 12288
    ELSE IF lead = 130 /\ trail = 160 THEN 12354
    ELSE 131072 + lead * 256 + trail

\* Single bytes decode one by one up to the next lead byte.
RECURSIVE DecodeCp932(_)
DecodeCp932(b) ==
    LET leads == {i \in 1..Len(b) : IsLeadByte(b[i])}
    IN  IF leads = {} THEN [i \in 1..Len(b) |-> Cp932Single(b[i])]
        ELSE LET k == MinOf(leads)
                 head == [i \in 1..(k - 1) |-> Cp932Single(b[i])]
             IN  IF k < Len(b) /\ IsTrailByte(b[k + 1])
                 THEN head \o <<Cp932Pair(b[k], b[k + 1])>>
                        \o DecodeCp932(SubSeq(b, k + 2, Len(b)))
                 ELSE head \o <<65533>> \o DecodeCp932(SubSeq(b, k + 1, Len(b)))

\* str.strip("\x00"): NULs removed from both ends.
StripNul(s) ==
    LET kept == {i \in 1..Len(s) : s[i] /= 0}
    IN  IF kept = {} THEN <<>> ELSE SubSeq(s, MinOf(kept), MaxOf(kept))

(***************************************************************************)
(* CWFile (file_scanner.py 41-148).  A primitive applied while an          *)
(* exception is in flight is not executed: it returns the file unchanged.  *)
(* Each primitive yields [f |-> the file afterwards, v |-> the value].     *)
(* The list filedata of the chunks read is write-only in the program and   *)
(* is left out.                                                            *)
(***************************************************************************)
NewCWFile(data, backing, decodewrap) ==
    [data |-> data, pos |-> 0, backing |-> backing, decodewrap |-> decodewrap,
     exc |-> "none"]

Raise(f, e) == [f EXCEPT !.exc = e]

\* CWFile.read(n) with n given.  io.BytesIO reads to the end for any
\* negative n; io.BufferedReader does so for -1 and raises ValueError below.
read(f, n) ==
    IF f.exc /= "none" THEN [f |-> f, v |-> <<>>]
    ELSE IF n < -1 /\ f.backing = "FileIO" THEN [f |-> Raise(f, "ValueError"), v |-> <<>>]
    ELSE LET last == IF n < 0 THEN Len(f.data) ELSE Min(f.pos + n, Len(f.data))
             raw_data == SubSeq(f.data, f.pos + 1, last)
         IN  [f |-> [f EXCEPT !.pos = f.pos + Len(raw_data)], v |-> raw_data]

\* struct.unpack("<l", raw): little-endian, two's complement.
UnpackLong(b) ==
    b[1] + 256 * b[2] + 65536 * b[3]
      + 16777216 * (IF b[4] >= 128 THEN b[4] - 256 ELSE b[4])

PyBytesOf(s) == [f |-> s.f, v |-> PyBytes(s.v)]

\* Mutant of dword: a short read is zero-padded instead of failing.
UnpackPadded(r) ==
    IF r.f.exc /= "none" THEN [f |-> r.f, v |-> 0]
    ELSE [f |-> r.f,
          v |-> UnpackLong([i \in 1..4 |-> IF i <= Len(r.v) THEN r.v[i] ELSE 0])]

dwordPadded(f) == UnpackPadded(read(f, 4))

\* assert len(raw_data) == 4; struct.unpack("<l", raw_data).  The assert
\* fails on a short read (with assertions stripped struct.unpack raises
\* struct.error in its place; both are Exceptions).
UnpackDword(r) ==
    IF r.f.exc /= "none" THEN [f |-> r.f, v |-> 0]
    ELSE IF Len(r.v) /= 4 THEN [f |-> Raise(r.f, "AssertionError"), v |-> 0]
    ELSE [f |-> r.f, v |-> UnpackLong(r.v)]

\* CWFile.dword
dword(f) == UnpackDword(read(f, 4))

\* struct.unpack("b", raw_data) needs exactly one byte.
UnpackByte(r) ==
    IF r.f.exc /= "none" THEN [f |-> r.f, v |-> 0]
    ELSE IF Len(r.v) /= 1 THEN [f |-> Raise(r.f, "struct.error"), v |-> 0]
    ELSE [f |-> r.f, v |-> IF r.v[1] >= 128 THEN r.v[1] - 256 ELSE r.v[1]]

\* CWFile.byte
byte(f) == UnpackByte(read(f, 1))

\* self.byte() != 0
NonZero(r) == [f |-> r.f, v |-> (r.f.exc = "none" /\ r.v /= 0)]

\* CWFile.boolean
boolean(f) == NonZero(byte(f))

\* str(s, "cp932", "replace").strip("\x00") on the bytes read
DecodeRaw(s) == [f |-> s.f, v |-> StripNul(DecodeCp932(s.v))]

\* Mutant of rawstring: a terminating NUL is read after the counted bytes.
RawOfLengthPlusOne(d) ==
    IF d.f.exc /= "none" THEN [f |-> d.f, v |-> <<>>]
    ELSE DecodeRaw(read(d.f, d.v + 1))

rawstringWithTerminator(f) == RawOfLengthPlusOne(dword(f))

\* The body of rawstring once the length d has been read: nothing more is
\* read for a zero length.
RawOfLength(d) ==
    IF d.f.exc /= "none" THEN [f |-> d.f, v |-> <<>>]
    ELSE IF d.v /= 0 THEN DecodeRaw(read(d.f, d.v))
    ELSE [f |-> d.f, v |-> <<>>]

\* CWFile.rawstring
rawstring(f) == RawOfLength(dword(f))

\* encodewrap(s) if multiline and not self.decodewrap
Wrap(s, wrap) == IF wrap THEN [f |-> s.f, v |-> encodewrap(s.v)] ELSE s

\* Mutant of string: the reader's decodewrap setting is not consulted.
stringIgnoringDecodewrap(f, multiline) == Wrap(rawstring(f), multiline)

\* CWFile.string
string(f, multiline) == Wrap(rawstring(f), multiline /\ ~f.decodewrap)

\* The body of image once the length d has been read.
ImageOfLength(d) ==
    IF d.f.exc /= "none" THEN [f |-> d.f, v |-> PyNone]
    ELSE IF d.v /= 0 THEN PyBytesOf(read(d.f, d.v))
    ELSE [f |-> d.f, v |-> PyNone]

\* CWFile.image: None for a zero length, else the raw bytes.
image(f) == ImageOfLength(dword(f))

(***************************************************************************)
(* Python dicts are functions from keys to values.                         *)
(***************************************************************************)
EmptyDict == [k \in {} |-> PyNone]
Get(d, k, default) == IF k \in DOMAIN d THEN d[k] ELSE default
Put(d, k, v) == [x \in (DOMAIN d) \cup {k} |-> IF x = k THEN v ELSE d[x]]
Truthy(d) == DOMAIN d /= {}

(***************************************************************************)
(* Step and Flag (file_scanner.py 238-248).  A run of reads is a record    *)
(* [f, trace, v]: the file so far, the reads made so far and the values    *)
(* read so far, by name (or in a list).  Every read that is started is     *)
(* noted in the trace, in the order the code performs it, with the cursor  *)
(* before and after: the trace is how the order of consumption is          *)
(* observed.                                                               *)
(***************************************************************************)
StepVariableNames == 10
FlagVariableNames == 2

PyList(l) == [t |-> "list", v |-> l]
PyDict(d) == [t |-> "dict", v |-> d]

Note(f, name, r) ==
    IF f.exc = "none"
    THEN <<[field |-> name, from |-> f.pos, to |-> r.f.pos, ok |-> r.f.exc = "none"]>>
    ELSE <<>>

Start(f) == [f |-> f, trace |-> <<>>, v |-> EmptyDict]
StartList(f) == [f |-> f, trace |-> <<>>, v |-> <<>>]

\* name = r, where r is what a primitive returned on st.f
Then(st, name, r) ==
    [f |-> r.f, trace |-> st.trace \o Note(st.f, name, r), v |-> Put(st.v, name, r.v)]

ReadString(st, name, multiline) == Then(st, name, string(st.f, multiline))
ReadDword(st, name) == Then(st, name, dword(st.f))
ReadBoolean(st, name) == Then(st, name, boolean(st.f))
ReadImage(st, name) == Then(st, name, image(st.f))

\* name = l, where l is the list a comprehension built from st.f on
WithList(st, name, l) ==
    [f |-> l.f, trace |-> st.trace \o l.trace, v |-> Put(st.v, name, l.v)]

AddName(st, r) ==
    [f |-> r.f, trace |-> st.trace \o Note(st.f, "variable_name", r),
     v |-> Append(st.v, r.v)]

\* [f.string() for _ in range(k)]
RECURSIVE ReadNames(_, _)
ReadNames(st, k) ==
    IF k <= 0 \/ st.f.exc /= "none" THEN st
    ELSE ReadNames(AddName(st, string(st.f, FALSE)), k - 1)

NamesAfter(st, k) == WithList(st, "variable_names", ReadNames(StartList(st.f), k))

StepOf(st) ==
    [f |-> st.f, trace |-> st.trace,
     v |-> [name |-> st.v["step.name"], default |-> PyInt(st.v["step.default"]),
            variable_names |-> st.v["variable_names"]]]

FlagOf(st) ==
    [f |-> st.f, trace |-> st.trace,
     v |-> [name |-> st.v["flag.name"], default |-> PyBool(st.v["flag.default"]),
            variable_names |-> st.v["variable_names"]]]

\* Mutant of Step: one variable slot fewer.
StepNineNames(f) ==
    LET name == ReadString(Start(f), "step.name", FALSE)
        default == ReadDword(name, "step.default")
        variable_names == NamesAfter(default, StepVariableNames - 1)
    IN  StepOf(variable_names)

Step(f) ==
    LET name == ReadString(Start(f), "step.name", FALSE)
        default == ReadDword(name, "step.default")
        variable_names == NamesAfter(default, StepVariableNames)
    IN  StepOf(variable_names)

Flag(f) ==
    LET name == ReadString(Start(f), "flag.name", FALSE)
        default == ReadBoolean(name, "flag.default")
        variable_names == NamesAfter(default, FlagVariableNames)
    IN  FlagOf(variable_names)

AddItem(st, s) ==
    [f |-> s.f, trace |-> st.trace \o s.trace, v |-> Append(st.v, s.v)]

\* [Step(self, self.file) for _ in range(steps_num)]
RECURSIVE ReadSteps(_, _)
ReadSteps(st, n) ==
    IF n <= 0 \/ st.f.exc /= "none" THEN st
    ELSE ReadSteps(AddItem(st, Step(st.f)), n - 1)

\* [Flag(self, self.file) for _ in range(flags_num)]
RECURSIVE ReadFlags(_, _)
ReadFlags(st, n) ==
    IF n <= 0 \/ st.f.exc /= "none" THEN st
    ELSE ReadFlags(AddItem(st, Flag(st.f)), n - 1)

(***************************************************************************)
(* The version table of read_summary_data (file_scanner.py 171-182).       *)
(***************************************************************************)
\* Mutant of VersionOf: the range tests exclude their upper ends.
VersionOfStrict(area_id) ==
    IF area_id < 19999 THEN [version |-> 0, area_id |-> area_id]
    ELSE IF area_id < 39999 THEN [version |-> 2, area_id |-> area_id - 20000]
    ELSE IF area_id < 49999 THEN [version |-> 4, area_id |-> area_id - 40000]
    ELSE [version |-> 7, area_id |-> area_id - 70000]

VersionOf(area_id) ==
    IF area_id <= 19999 THEN [version |-> 0, area_id |-> area_id]
    ELSE IF area_id <= 39999 THEN [version |-> 2, area_id |-> area_id - 20000]
    ELSE IF area_id <= 49999 THEN [version |-> 4, area_id |-> area_id - 40000]
    ELSE [version |-> 7, area_id |-> area_id - 70000]

\* Mutant of VersionTag: every version from 4 on is reported as NEXT.
VersionTagFrom4(version) == IF version >= 4 THEN "NEXT" ELSE "OG"

\* "NEXT" if version == 7 else "OG" (file_scanner.py 208)
VersionTag(version) == IF version = 7 THEN "NEXT" ELSE "OG"

\* Mutant of ReadsLevels: the level fields are read for every version.
ReadsLevelsAlways(version) == version >= 0

\* The level fields are read only for version > 0 (file_scanner.py 196-200).
ReadsLevels(version) == version > 0

\* s or default
Or(s, default) == IF s = <<>> THEN default ELSE s

(***************************************************************************)
(* SummaryFileReader.read_summary_data (file_scanner.py 161-235).          *)
(* The result holds the file afterwards, the 13-tuple returned (when no    *)
(* exception is in flight), the trace of reads, and the locals version,    *)
(* area_id, steps and flags.                                               *)
(***************************************************************************)
\* Mutant of ReadHeader: author is read before description.
ReadHeaderAuthorFirst(f) ==
    LET image_data == ReadImage(Start(f), "image")
        name == ReadString(image_data, "name", FALSE)
        author == ReadString(name, "author", FALSE)
        description == ReadString(author, "description", FALSE)
        required_coupons == ReadString(description, "required_coupons", TRUE)
        required_coupons_num == ReadDword(required_coupons, "required_coupons_num")
        area_id == ReadDword(required_coupons_num, "area_id")
    IN  area_id

\* Fields 1-7, read in this order (file_scanner.py 163-169).
ReadHeader(f) ==
    LET image_data == ReadImage(Start(f), "image")
        name == ReadString(image_data, "name", FALSE)
        description == ReadString(name, "description", FALSE)
        author == ReadString(description, "author", FALSE)
        required_coupons == ReadString(author, "required_coupons", TRUE)
        required_coupons_num == ReadDword(required_coupons, "required_coupons_num")
        area_id == ReadDword(required_coupons_num, "area_id")
    IN  area_id

\* steps = [Step(...) for _ in range(steps_num)] (185-186)
StepsAfter(st) == WithList(st, "steps", ReadSteps(StartList(st.f), st.v["steps_num"]))

\* flags = [Flag(...) for _ in range(flags_num)] (189-190)
FlagsAfter(st) == WithList(st, "flags", ReadFlags(StartList(st.f), st.v["flags_num"]))

\* level_min and level_max: read if version > 0, else 0 (196-200)
LevelsAfter(st) ==
    IF ReadsLevels(VersionOf(st.v["area_id"]).version)
    THEN ReadDword(ReadDword(st, "level_min"), "level_max")
    ELSE [st EXCEPT !.v = Put(Put(@, "level_min", 0), "level_max", 0)]

\* The tuple returned (202-235), with the locals the claims speak of.
SummaryOf(st, file_path) ==
    [f |-> st.f,
     exc |-> st.f.exc,
     trace |-> st.trace,
     version |-> VersionOf(st.v["area_id"]).version,
     area_id |-> VersionOf(st.v["area_id"]).area_id,
     steps_num |-> st.v["steps_num"],
     flags_num |-> st.v["flags_num"],
     steps |-> st.v["steps"],
     flags |-> st.v["flags"],
     v |-> IF st.f.exc /= "none" THEN <<>>
           ELSE << PyStr(Or(st.v["name"], Unknown)),
                   PyStr(Or(st.v["author"], Unknown)),
                   PyStr(VersionTag(VersionOf(st.v["area_id"]).version)),
                   PyInt(st.v["level_min"]),
                   PyInt(st.v["level_max"]),
                   PyInt(st.v["required_coupons_num"]),
                   PyStr(st.v["required_coupons"]),
                   PyList(<<>>),
                   PyList(<<>>),
                   st.v["image"],
                   PyStr(Or(st.v["description"], <<>>)),
                   PyStr("jp"),
                   file_path >>]

read_summary_data(f, file_path) ==
    LET h == ReadHeader(f)
        steps_num == ReadDword(h, "steps_num")
        steps == StepsAfter(steps_num)
        flags_num == ReadDword(steps, "flags_num")
        flags == FlagsAfter(flags_num)
        unknown == ReadDword(flags, "unknown")
        levels == LevelsAfter(unknown)
    IN  SummaryOf(levels, file_path)

(***************************************************************************)
(* Input domain: Summary.wsm streams.  A stream is written from a shape    *)
(* (the field values) in the wire format CardWirth uses, followed by       *)
(* `trail` more bytes; cuts of these streams are made by Truncate below.   *)
(* A "plain" shape has every string empty and no image; a "rich" one has   *)
(* an image, NUL padding, a multi-line coupon text and distinct names in   *)
(* every Step and Flag slot.                                               *)
(***************************************************************************)
AreaIds == {-1, 0, 19999, 20000, 39999, 40000, 49999, 50000, 2147483647}

Shapes ==
    [style : {"plain", "rich"}, area : AreaIds, steps : 0..MaxSteps,
     flags : 0..MaxFlags, trail : {0, MaxTrail}]

\* struct.pack("<l", n)
PackLong(n) ==
    LET m == IF n < 0 THEN (n + 2147483647) + 1 ELSE n
        top == m \div 16777216
    IN  << m % 256, (m \div 256) % 256, (m \div 65536) % 256,
           IF n < 0 THEN top + 128 ELSE top >>

WriteString(b) == PackLong(Len(b)) \o b

RECURSIVE Repeat(_, _)
Repeat(b, n) == IF n <= 0 THEN <<>> ELSE b \o Repeat(b, n - 1)

RECURSIVE WriteNames(_, _, _)
WriteNames(rich, first, k) ==
    IF k <= 0 THEN <<>>
    ELSE WriteString(IF rich THEN <<first>> ELSE <<>>) \o WriteNames(rich, first + 1, k - 1)

WriteStep(rich) ==
    WriteString(IF rich THEN <<83>> ELSE <<>>) \o PackLong(IF rich THEN 7 ELSE 0)
      \o WriteNames(rich, 97, StepVariableNames)

WriteFlag(rich) ==
    WriteString(IF rich THEN <<70>> ELSE <<>>) \o <<IF rich THEN 1 ELSE 0>>
      \o WriteNames(rich, 120, FlagVariableNames)

TrailBytes(n) == [i \in 1..n |-> IF i % 4 = 1 THEN 9 ELSE 0]

WriteSummary(sh) ==
    LET rich == sh.style = "rich"
    IN  WriteString(IF rich THEN <<137, 80>> ELSE <<>>)
          \o WriteString(IF rich THEN <<65>> ELSE <<>>)
          \o WriteString(IF rich THEN <<68, 0>> ELSE <<>>)
          \o WriteString(IF rich THEN <<66>> ELSE <<>>)
          \o WriteString(IF rich THEN <<92, 10, 67, 13>> ELSE <<>>)
          \o PackLong(IF rich THEN 3 ELSE 0)
          \o PackLong(sh.area)
          \o PackLong(sh.steps) \o Repeat(WriteStep(rich), sh.steps)
          \o PackLong(sh.flags) \o Repeat(WriteFlag(rich), sh.flags)
          \o PackLong(0)
          \o (IF sh.area > 19999 THEN PackLong(2) \o PackLong(5) ELSE <<>>)
          \o TrailBytes(sh.trail)

\* Length of the record itself, without the trailing bytes.
RecordLen(sh) == Len(WriteSummary(sh)) - sh.trail

Backings == {"BytesIO", "FileIO"}

(***************************************************************************)
(* Unused parts of the state keep these values.                            *)
(***************************************************************************)
NoCW == [data |-> <<>>, pos |-> 0, backing |-> "BytesIO", decodewrap |-> FALSE,
         exc |-> "none"]
NoRet == [op |-> "none"]
NoSummary == [done |-> FALSE]
NoOrigin == [cut |-> FALSE]
NoFolder == [present |-> FALSE]

ScanIdle ==
    /\ walk = <<>> /\ pc = "idle" /\ idx = 0 /\ zip_files = <<>>
    /\ files = <<>> /\ raised = "none"

FolderIdle == folder = NoFolder /\ folderResult = [done |-> FALSE] /\ warned = "none"

HandlesIdle == handles = <<>>

NoArg == [given |-> FALSE]
NoOut == [done |-> FALSE]
TextIdle == arg = NoArg /\ out = NoOut

NoHandlers == <<>>
NoViewer == [loaded |-> FALSE]
NoDb == [open |-> FALSE]
UiIdle == handlers = NoHandlers /\ viewer = NoViewer /\ db = NoDb

ReaderIdle == cw = NoCW /\ ret = NoRet /\ summary = NoSummary /\ origin = NoOrigin

(***************************************************************************)
(* SpecSummary: read_summary_data applied to a fresh CWFile on a stream,   *)
(* as extract_info_from_scenario and load_image_data do; then the same     *)
(* file cut short and decoded again.                                       *)
(***************************************************************************)
InitSummary ==
    /\ \E sh \in Shapes, b \in Backings :
          /\ cw = NewCWFile(WriteSummary(sh), b, FALSE)
          /\ origin = [cut |-> FALSE, shape |-> sh]
    /\ ret = NoRet
    /\ summary = NoSummary
    /\ ScanIdle
    /\ FolderIdle
    /\ UiIdle
    /\ HandlesIdle
    /\ TextIdle

ReadSummaryData ==
    /\ ~summary.done
    /\ \E r \in {read_summary_data(cw, PyStr(<<>>))} :
           /\ summary' = [done |-> TRUE, exc |-> r.exc, trace |-> r.trace,
                          version |-> r.version, area_id |-> r.area_id,
                          steps |-> r.steps, flags |-> r.flags,
                          steps_num |-> r.steps_num, flags_num |-> r.flags_num,
                          v |-> r.v]
           /\ cw' = r.f
    /\ UNCHANGED <<handlers, viewer, db, handles, arg, out, ret, origin, walk, pc, idx, zip_files, files, raised,
                   folder, folderResult, warned>>

\* The file is replaced by one of its strict prefixes: a truncated copy,
\* opened afresh.
Truncate ==
    /\ summary.done /\ summary.exc = "none" /\ ~origin.cut
    /\ \E k \in 0..(Len(cw.data) - 1) :
          /\ cw' = NewCWFile(SubSeq(cw.data, 1, k), cw.backing, cw.decodewrap)
          /\ origin' = [cut |-> TRUE, shape |-> origin.shape,
                        consumed |-> cw.pos, whole |-> Len(cw.data)]
    /\ summary' = NoSummary
    /\ UNCHANGED <<handlers, viewer, db, handles, arg, out, ret, walk, pc, idx, zip_files, files, raised,
                   folder, folderResult, warned>>

NextSummary == ReadSummaryData \/ Truncate

SpecSummary == InitSummary /\ [][NextSummary]_vars

(***************************************************************************)
(* Properties of read_summary_data, under SpecSummary.                     *)
(***************************************************************************)
Decoded == summary.done /\ summary.exc = "none"
Failed == summary.done /\ summary.exc /= "none"
Rich == origin.shape.style = "rich"

FieldNames(trace) == [i \in 1..Len(trace) |-> trace[i].field]

\* The entries of the trace for one field name.
Reads(name) == {i \in 1..Len(summary.trace) : summary.trace[i].field = name}

\* C3 as stated: every strict prefix of a stream that decodes fails to decode.
C3_EveryStrictPrefixFails == (origin.cut /\ summary.done) => Failed

\* C3 amended: a prefix shorter than the bytes the successful decode consumed
\* fails with an error and returns no record, wherever the cut falls.
C3_PrefixOfRecordFails ==
    (origin.cut /\ summary.done /\ Len(cw.data) < origin.consumed)
        => (Failed /\ summary.v = <<>>)

\* A stream cut inside a Step's variable names was decoded, and failed.
C3_Witness ==
    /\ origin.cut /\ summary.done /\ Len(cw.data) < origin.consumed
    /\ summary.exc = "AssertionError"
    /\ summary.trace /= <<>>
    /\ summary.trace[Len(summary.trace)].field = "variable_name"
    /\ ~summary.trace[Len(summary.trace)].ok

\* C4: the version table yields, for each area id, exactly the (version,
\* adjusted id) of its row; the boundary ids give the listed pairs.
C4_VersionTable ==
    Decoded =>
        LET id == origin.shape.area
            got == <<summary.version, summary.area_id>>
        IN  /\ (id <= 19999) => got = <<0, id>>
            /\ (19999 < id /\ id <= 39999) => got = <<2, id - 20000>>
            /\ (39999 < id /\ id <= 49999) => got = <<4, id - 40000>>
            /\ (id > 49999) => got = <<7, id - 70000>>
            /\ (id = 0) => got = <<0, 0>>
            /\ (id = 19999) => got = <<0, 19999>>
            /\ (id = 20000) => got = <<2, 0>>
            /\ (id = 39999) => got = <<2, 19999>>
            /\ (id = 40000) => got = <<4, 0>>
            /\ (id = 49999) => got = <<4, 9999>>
            /\ (id = 50000) => got = <<7, -20000>>

\* Area id 50000 was decoded as version 7 with adjusted id -20000.
C4_Witness ==
    /\ Decoded /\ origin.shape.area = 50000
    /\ summary.version = 7 /\ summary.area_id = -20000

\* C5: the two level fields are read iff version > 0 (area id > 19999); for
\* version 0 no byte is consumed for them and both levels are 0.
C5_LevelsIffVersionPositive ==
    Decoded =>
        LET unknown == CHOOSE i \in Reads("unknown") : TRUE
            afterUnknown == summary.trace[unknown].to
        IN  /\ (summary.version > 0) <=> (origin.shape.area > 19999)
            /\ (summary.version > 0) =>
                  /\ Cardinality(Reads("level_min")) = 1
                  /\ Cardinality(Reads("level_max")) = 1
                  /\ cw.pos = afterUnknown + 8
                  /\ summary.v[4] = PyInt(2) /\ summary.v[5] = PyInt(5)
            /\ (summary.version = 0) =>
                  /\ Reads("level_min") = {} /\ Reads("level_max") = {}
                  /\ cw.pos = afterUnknown
                  /\ summary.v[4] = PyInt(0) /\ summary.v[5] = PyInt(0)

\* A version 0 record followed by further bytes was decoded: the bytes are
\* there, and left unread.
C5_Witness ==
    /\ Decoded /\ ~origin.cut /\ summary.version = 0
    /\ origin.shape.trail = MaxTrail /\ cw.pos + MaxTrail = Len(cw.data)
    /\ summary.v[4] = PyInt(0)

StepFields == <<"step.name", "step.default">> \o [i \in 1..10 |-> "variable_name"]
FlagFields == <<"flag.name", "flag.default">> \o [i \in 1..2 |-> "variable_name"]

ExpectedOrder(steps, flags, levels) ==
    <<"image", "name", "description", "author", "required_coupons",
      "required_coupons_num", "area_id", "steps_num">>
      \o Repeat(StepFields, steps)
      \o <<"flags_num">>
      \o Repeat(FlagFields, flags)
      \o <<"unknown">>
      \o (IF levels THEN <<"level_min", "level_max">> ELSE <<>>)

\* C6: a successful decode consumes the stream in the stated field order,
\* each field starting where the previous one ended, none skipped; so each
\* returned field holds what was written at its place in the stream.
C6_FieldOrder ==
    Decoded =>
        LET tr == summary.trace
        IN  /\ FieldNames(tr) = ExpectedOrder(origin.shape.steps, origin.shape.flags,
                                              origin.shape.area > 19999)
            /\ tr[1].from = 0
            /\ \A i \in 1..(Len(tr) - 1) : tr[i + 1].from = tr[i].to
            /\ tr[Len(tr)].to = cw.pos
            /\ \A i \in 1..Len(tr) : tr[i].ok
            /\ Rich => /\ summary.v[10] = PyBytes(<<137, 80>>)
                       /\ summary.v[1] = PyStr(<<65>>)
                       /\ summary.v[11] = PyStr(<<68>>)
                       /\ summary.v[2] = PyStr(<<66>>)
                       /\ summary.v[7] = PyStr(<<92, 92, 92, 110, 67>>)
                       /\ summary.v[6] = PyInt(3)
            /\ ~Rich => /\ summary.v[10] = PyNone
                        /\ summary.v[1] = PyStr(Unknown)
                        /\ summary.v[11] = PyStr(<<>>)
                        /\ summary.v[2] = PyStr(Unknown)
                        /\ summary.v[7] = PyStr(<<>>)
                        /\ summary.v[6] = PyInt(0)

\* A rich record with a Step, a Flag and level fields was decoded.
C6_Witness ==
    /\ Decoded /\ Rich /\ origin.shape.steps >= 1 /\ origin.shape.flags >= 1
    /\ origin.shape.area > 19999
    /\ Len(summary.trace) = 10 + 12 * origin.shape.steps + 4 * origin.shape.flags + 2

\* C7: a decoded record is tagged NEXT exactly when the derived version is 7
\* (area id > 49999) and OG otherwise; never Py.
C7_VersionTag ==
    Decoded =>
        /\ summary.v[3] \in {PyStr("NEXT"), PyStr("OG")}
        /\ (summary.v[3] = PyStr("NEXT")) <=> (summary.version = 7)
        /\ (summary.v[3] = PyStr("NEXT")) <=> (origin.shape.area > 49999)
        /\ summary.v[3] /= PyStr("Py")

\* Both tags occur: this state holds a NEXT record (its counterpart with
\* tag OG is C4's version 4 boundary).
C7_Witness ==
    /\ Decoded /\ origin.shape.area = 2147483647 /\ summary.v[3] = PyStr("NEXT")

\* C8: every decoded Step has exactly 10 variable names and every Flag 2, in
\* stream order after its name and default.
C8_StepFlagArity ==
    Decoded =>
        /\ Len(summary.steps) = origin.shape.steps
        /\ Len(summary.flags) = origin.shape.flags
        /\ \A i \in 1..Len(summary.steps) :
              LET st == summary.steps[i]
              IN  /\ Len(st.variable_names) = 10
                  /\ Rich => /\ st.name = <<83>> /\ st.default = PyInt(7)
                             /\ st.variable_names = [k \in 1..10 |-> <<96 + k>>]
                  /\ ~Rich => /\ st.name = <<>> /\ st.default = PyInt(0)
                              /\ st.variable_names = [k \in 1..10 |-> <<>>]
        /\ \A i \in 1..Len(summary.flags) :
              LET fl == summary.flags[i]
              IN  /\ Len(fl.variable_names) = 2
                  /\ Rich => /\ fl.name = <<70>> /\ fl.default = PyBool(TRUE)
                             /\ fl.variable_names = <<(<<120>>), (<<121>>)>>
                  /\ ~Rich => /\ fl.name = <<>> /\ fl.default = PyBool(FALSE)
                              /\ fl.variable_names = <<(<<>>), (<<>>)>>
        /\ Cardinality(Reads("variable_name"))
              = 10 * Len(summary.steps) + 2 * Len(summary.flags)

\* A record with at least one Step and one Flag, names in every slot, was decoded.
C8_Witness ==
    /\ Decoded /\ Rich /\ Len(summary.steps) >= 1 /\ Len(summary.flags) >= 1
    /\ summary.steps[1].variable_names[10] = <<106>>
    /\ summary.flags[1].variable_names[2] = <<121>>

(***************************************************************************)
(* SpecCWFile: the CWFile primitives applied, in any order, to one file.   *)
(* The caller catches what a primitive raises, so the file stays usable;   *)
(* ret keeps the exception of the last call.                               *)
(***************************************************************************)
PrimitiveStreams ==
    {WriteSummary(sh) : sh \in {x \in Shapes : x.area = 0 /\ x.trail = 0}}
      \cup { <<0, 0, 0, 0>>,
             <<0, 0, 0, 0, 0, 0, 0, 0, 65>>,
             <<5, 0, 0, 0, 65>>,
             <<255, 255, 255, 255, 65, 66>>,
             <<254, 255, 255, 255, 65>>,
             <<3, 0, 0, 0, 0, 130, 160, 0, 0, 0>>,
             <<2, 0, 0, 0, 129, 10, 1, 0>>,
             <<6, 0, 0, 0, 65, 92, 10, 13, 92, 66>> }

InitCWFile ==
    /\ \E data \in PrimitiveStreams, b \in Backings, decodewrap \in BOOLEAN :
          cw = NewCWFile(data, b, decodewrap)
    /\ ret = NoRet
    /\ summary = NoSummary
    /\ origin = NoOrigin
    /\ ScanIdle
    /\ FolderIdle
    /\ UiIdle
    /\ HandlesIdle
    /\ TextIdle

Called(op, multiline, r, v) ==
    /\ ret' = [op |-> op, multiline |-> multiline, v |-> v, before |-> cw.pos,
               after |-> r.f.pos, exc |-> r.f.exc]
    /\ cw' = [r.f EXCEPT !.exc = "none"]
    /\ UNCHANGED <<handlers, viewer, db, handles, arg, out, summary, origin, walk, pc, idx, zip_files, files, raised,
                   folder, folderResult, warned>>

CWString ==
    \E multiline \in BOOLEAN :
        \E r \in {string(cw, multiline)} : Called("string", multiline, r, PyStr(r.v))

CWRawstring == \E r \in {rawstring(cw)} : Called("rawstring", FALSE, r, PyStr(r.v))

CWDword == \E r \in {dword(cw)} : Called("dword", FALSE, r, PyInt(r.v))

CWByte == \E r \in {byte(cw)} : Called("byte", FALSE, r, PyInt(r.v))

CWBoolean == \E r \in {boolean(cw)} : Called("boolean", FALSE, r, PyBool(r.v))

CWImage == \E r \in {image(cw)} : Called("image", FALSE, r, r.v)

NextCWFile == CWString \/ CWRawstring \/ CWDword \/ CWByte \/ CWBoolean \/ CWImage

SpecCWFile == InitCWFile /\ [][NextCWFile]_vars

\* The four bytes at the cursor of the last call were a zero length prefix.
ZeroPrefixRead ==
    /\ ret.op \in {"string", "rawstring"}
    /\ Len(cw.data) >= ret.before + 4
    /\ SubSeq(cw.data, ret.before + 1, ret.before + 4) = <<0, 0, 0, 0>>

\* C9: on a zero length prefix rawstring / string return the empty string
\* with the cursor advanced by exactly 4, for multiline false and true.
C9_ZeroLengthString ==
    ZeroPrefixRead =>
        /\ ret.exc = "none"
        /\ ret.v = PyStr(<<>>)
        /\ ret.after = ret.before + 4
        /\ cw.pos = ret.before + 4

\* string(multiline=True), without decodewrap, met a zero prefix in the
\* middle of a stream with bytes following it.
C9_Witness ==
    /\ ZeroPrefixRead /\ ret.op = "string" /\ ret.multiline /\ ~cw.decodewrap
    /\ ret.before > 0 /\ Len(cw.data) > ret.after
    /\ ret.v = PyStr(<<>>)

\* What one character becomes under the storage escaping.
EscapedChar(c) ==
    IF c = 92 THEN <<92, 92>>
    ELSE IF c = 10 THEN <<92, 110>>
    ELSE IF c = 13 THEN <<>>
    ELSE <<c>>

\* How many characters the first n characters of s become.
EscapedLen(s, n) ==
    Cardinality({j \in 1..n : s[j] /= 13}) + Cardinality({j \in 1..n : s[j] \in {92, 10}})

\* t is s with each character escaped, in order.
IsEscaped(t, s) ==
    /\ Len(t) = EscapedLen(s, Len(s))
    /\ \A i \in 1..Len(s) :
          SubSeq(t, EscapedLen(s, i - 1) + 1, EscapedLen(s, i)) = EscapedChar(s[i])

\* The text the length-prefixed string at the cursor of the last call decodes to.
TextAtLastCall == rawstring([cw EXCEPT !.pos = ret.before]).v

\* C20: string(multiline=True) on a reader with decodewrap=False returns
\* the decoded text with each backslash doubled, each line feed written as
\* backslash 'n', each carriage return removed and the rest unchanged in
\* order; with multiline=False or decodewrap=True the text is untransformed.
C20_MultilineEscaping ==
    (ret.op = "string" /\ ret.exc = "none") =>
        /\ ret.v.t = "str"
        /\ IF ret.multiline /\ ~cw.decodewrap
           THEN IsEscaped(ret.v.v, TextAtLastCall)
           ELSE ret.v.v = TextAtLastCall

\* string(multiline=True), decodewrap=False, read a text holding a
\* backslash, a line feed and a carriage return.
C20_Witness ==
    /\ ret.op = "string" /\ ret.exc = "none" /\ ret.multiline /\ ~cw.decodewrap
    /\ TextAtLastCall = <<65, 92, 10, 13, 92, 66>>
    /\ ret.v = PyStr(<<65, 92, 92, 92, 110, 92, 92, 66>>)

(***************************************************************************)
(* Summary.xml files.  The bytes of a file are described by what decides   *)
(* the code's path through read_with_encoding and parse_xml_data: the      *)
(* encoding="..." declaration in the first 100 bytes, the codecs under     *)
(* which the bytes decode without error, whether the decoded text is       *)
(* well-formed XML, and the document's Property element.                   *)
(***************************************************************************)
XmlGood ==
    [declared |-> "utf-8", decodes |-> {"declared", "cp932"}, wellFormed |-> TRUE,
     property |-> TRUE, name |-> <<(<<84>>)>>, author |-> <<(<<87>>)>>,
     description |-> <<>>, level |-> TRUE,
     level_min |-> <<49>>, level_max |-> <<51>>, coupons |-> "number",
     counts |-> [hangul |-> 0, hiragana |-> 2, katakana |-> 1]]

\* The tags do not nest: ET.fromstring raises ParseError.
XmlMalformed == [XmlGood EXCEPT !.wellFormed = FALSE]

\* encoding="..." names a codec Python does not know.
XmlUnknownEncoding == [XmlGood EXCEPT !.declared = "bogus"]

\* <RequiredCoupons number="x">: int("x") raises ValueError.
XmlBadNumber == [XmlGood EXCEPT !.coupons = "nonnumber"]

\* A document without a Property element.
XmlNoProperty == [XmlGood EXCEPT !.property = FALSE]

\* A Property without Name, Author and Level.
XmlBare == [XmlGood EXCEPT !.name = <<>>, !.author = <<>>, !.level = FALSE,
                           !.coupons = "absent"]

\* element.findtext(tag, default) / "elem.text if elem is not None and elem.text
\* else ''": an optional element is a sequence of at most one text.
FindText(elem, default) == IF elem = <<>> THEN default ELSE elem[1]

KnownCodecs == {"utf-8", "shift_jis", "cp932", "euc_jp"}

(***************************************************************************)
(* detect_language (file_scanner.py 261-273) on the counts of the text.    *)
(***************************************************************************)
\* Mutant of detect_language: the two Japanese classes are compared together.
detect_languageByTotal(counts) ==
    IF counts.hangul > counts.hiragana + counts.katakana THEN "kr"
    ELSE IF counts.hiragana + counts.katakana > counts.hangul THEN "jp"
    ELSE "None"

detect_language(counts) ==
    IF counts.hangul > counts.hiragana + counts.katakana THEN "kr"
    ELSE IF counts.hiragana > counts.hangul \/ counts.katakana > counts.hangul THEN "jp"
    ELSE "None"

(***************************************************************************)
(* read_with_encoding (file_scanner.py 298-319).  Only UnicodeDecodeError  *)
(* is caught: the LookupError of an unknown codec leaves the function.     *)
(* [exc, text]: the text keeps the document and the codec that decoded it. *)
(***************************************************************************)
read_with_encoding(x) ==
    LET encoding == IF x.declared /= "none" THEN x.declared ELSE "utf-8"
    IN  IF encoding \notin KnownCodecs THEN [exc |-> "LookupError", text |-> x]
        ELSE IF "declared" \in x.decodes
             THEN [exc |-> "none", text |-> [x EXCEPT !.decodes = {"declared"}]]
        ELSE IF "cp932" \in x.decodes
             THEN [exc |-> "none", text |-> [x EXCEPT !.decodes = {"cp932"}]]
        ELSE [exc |-> "none", text |-> [x EXCEPT !.decodes = {"utf-8-ignore"}]]

(***************************************************************************)
(* parse_xml_data (file_scanner.py 429-476).  ET.ParseError is caught and  *)
(* leaves the dict as filled so far (empty); the ValueError of int() on a  *)
(* non-numeric number attribute is not caught.  [exc, v].                  *)
(***************************************************************************)
parse_xml_data(text) ==
    LET lang == detect_language(text.counts)
        language_code == IF lang = "None" THEN "Unknown" ELSE lang
        base == [Name |-> PyStr(FindText(text.name, Unknown)),
                 Author |-> PyStr(FindText(text.author, Unknown)),
                 Version |-> PyStr("Py"),
                 description |-> PyStr(FindText(text.description, <<>>)),
                 image_paths |-> PyList(<<>>), position_types |-> PyList(<<>>)]
        levels == IF text.level
                  THEN ("Level max" :> PyStr(text.level_max))
                         @@ ("Level min" :> PyStr(text.level_min))
                  ELSE EmptyDict
        coupons == IF text.coupons = "number"
                   THEN PyDict([number |-> PyInt(3), name |-> PyStr(<<67>>)])
                   ELSE PyDict([number |-> PyInt(0), name |-> PyStr(<<>>)])
    IN  IF ~text.wellFormed THEN [exc |-> "none", v |-> EmptyDict]
        ELSE IF ~text.property
             THEN [exc |-> "none", v |-> [language_code |-> PyStr(language_code)]]
        ELSE IF text.coupons = "nonnumber" THEN [exc |-> "ValueError", v |-> EmptyDict]
        ELSE [exc |-> "none",
              v |-> base @@ levels @@ [RequiredCoupons |-> coupons,
                                       language_code |-> PyStr(language_code)]]

(***************************************************************************)
(* default_extracted_info (file_scanner.py 410-427) and the dict that      *)
(* extract_info_from_scenario returns on BadZipFile (348-352).             *)
(***************************************************************************)
default_extracted_info(file_path) ==
    [Name |-> PyStr(Unknown), Author |-> PyStr(Unknown), Version |-> PyStr("Py"),
     RequiredCoupons |-> PyDict([number |-> PyInt(0), name |-> PyStr(<<>>)]),
     image_paths |-> PyList(<<>>), position_types |-> PyList(<<>>),
     image_data |-> PyNone, description |-> PyStr(<<>>),
     language_code |-> PyStr("Unknown"), file_path |-> file_path]
      @@ ("Level min" :> PyStr(<<>>)) @@ ("Level max" :> PyStr(<<>>))

BadZipInfo(actual_file_path) ==
    [Name |-> PyStr(Unknown), Author |-> PyStr(Unknown), Version |-> PyStr("Py"),
     RequiredCoupons |-> PyDict([number |-> PyInt(0), name |-> PyStr(<<>>)]),
     image_paths |-> PyList(<<>>), position_types |-> PyList(<<>>),
     description |-> PyStr(<<>>), language_code |-> PyStr("Unknown"),
     file_path |-> actual_file_path]
      @@ ("Level min" :> PyStr(<<>>)) @@ ("Level max" :> PyStr(<<>>))

(***************************************************************************)
(* The walked tree.  A file is described by what the code tests of its     *)
(* name - the suffix of the lower-cased name, and whether the name carries *)
(* that suffix in lower case as written - and by its content.  Its path    *)
(* is its place in the enumeration; no path contains a "!".  Entry names   *)
(* of archives are ASCII, so decode_filename (275-296) returns them        *)
(* unchanged.                                                              *)
(***************************************************************************)
Path(i) == [file |-> i, entry |-> "", dir |-> ""]
\* Mutant of EntryPath: the directory part of the entry name is dropped.
EntryPathBaseOnly(i, e) == [file |-> i, entry |-> e.base, dir |-> ""]

\* f"{zip_path}!{file_name}": file_name is the entry's name in the archive,
\* directory part included.
EntryPath(i, e) == [file |-> i, entry |-> e.base, dir |-> e.dir]

LowerName(base) ==
    CASE base \in {"Summary.xml", "summary.xml", "SUMMARY.XML"} -> "summary.xml"
      [] base \in {"Summary.wsm", "summary.wsm", "SUMMARY.WSM"} -> "summary.wsm"
      [] OTHER -> "other"

\* name.lower().endswith(".xml")
EndsWithXml(e) == LowerName(e.base) = "summary.xml"

\* The sample Summary.wsm stream, and two cuts of it inside its Step list.
SampleShape == [style |-> "rich", area |-> 20000, steps |-> 1, flags |-> 1, trail |-> 0]
SampleWsm == WriteSummary(SampleShape)
StepListStart == Len(WriteSummary([SampleShape EXCEPT !.steps = 0, !.flags = 0])) - 16
StepListEnd == StepListStart + Len(WriteStep(TRUE))
CutInStepName == SubSeq(SampleWsm, 1, StepListStart + 2)
CutInStepSlots == SubSeq(SampleWsm, 1, StepListEnd - 3)

WsmFile(exact, data) == [lower |-> ".wsm", exact |-> exact, data |-> data]
WsnFile(exact, archive) == [lower |-> ".wsn", exact |-> exact, archive |-> archive]
ZipFile(archive) == [lower |-> ".zip", exact |-> TRUE, archive |-> archive]
XmlFile(x) == [lower |-> "summary.xml", exact |-> TRUE, xml |-> x]
OtherFile == [lower |-> "other", exact |-> TRUE]

NotAnArchive == [zip |-> FALSE, entries |-> <<>>]
Archive(entries) == [zip |-> TRUE, entries |-> entries]
XmlEntry(dir, base, encrypted, x) ==
    [dir |-> dir, base |-> base, encrypted |-> encrypted, empty |-> FALSE, xml |-> x]
OtherEntry(dir, base) ==
    [dir |-> dir, base |-> base, encrypted |-> FALSE, empty |-> FALSE]
WsmEntry(dir, base, encrypted, data) ==
    [dir |-> dir, base |-> base, encrypted |-> encrypted, empty |-> data = <<>>,
     data |-> data]

FileSamples ==
    { WsmFile(TRUE, SampleWsm),
      WsmFile(TRUE, CutInStepName),
      WsmFile(TRUE, CutInStepSlots),
      WsmFile(FALSE, SampleWsm),
      WsnFile(TRUE, NotAnArchive),
      WsnFile(TRUE, Archive(<<XmlEntry("", "Summary.xml", FALSE, XmlGood)>>)),
      WsnFile(TRUE, Archive(<<XmlEntry("", "Summary.xml", TRUE, XmlGood)>>)),
      XmlFile(XmlGood),
      XmlFile(XmlMalformed),
      XmlFile(XmlUnknownEncoding),
      XmlFile(XmlBadNumber),
      ZipFile(NotAnArchive),
      ZipFile(Archive(<<WsmEntry("d/", "SUMMARY.WSM", FALSE, SampleWsm)>>)),
      ZipFile(Archive(<<XmlEntry("", "Summary.xml", TRUE, XmlGood),
                        WsmEntry("", "summary.wsm", FALSE, SampleWsm)>>)),
      ZipFile(Archive(<<WsmEntry("", "summary.wsm", FALSE, CutInStepSlots),
                        XmlEntry("", "Summary.xml", FALSE, XmlGood)>>)),
      ZipFile(Archive(<<OtherEntry("", "readme.txt")>>)),
      WsnFile(TRUE, Archive(<<OtherEntry("", "readme.txt")>>)),
      WsnFile(TRUE, Archive(<<XmlEntry("d/", "Summary.xml", FALSE, XmlGood)>>)),
      ZipFile(Archive(<<XmlEntry("a/", "Summary.xml", FALSE, XmlGood),
                        WsmEntry("b/", "Summary.wsm", FALSE, SampleWsm)>>)),
      OtherFile }

(***************************************************************************)
(* extract_info_from_scenario (file_scanner.py 321-381).  `src` is the     *)
(* file on disk (is_zip false, file_name None) or the opened zip entry     *)
(* (is_zip true).  [exc, v]: the exception that leaves the function, and   *)
(* the dict returned.                                                      *)
(***************************************************************************)
\* dict(zip([...13 keys...], extracted_data)), then ['file_path'] = actual.
WsmInfo(t, actual_file_path) ==
    [Name |-> t[1], Author |-> t[2], Version |-> t[3],
     RequiredCoupons_number |-> t[6], RequiredCoupons_name |-> t[7],
     image_paths |-> t[8], position_types |-> t[9], image_data |-> t[10],
     description |-> t[11], language_code |-> t[12], file_path |-> actual_file_path]
      @@ ("Level min" :> t[4]) @@ ("Level max" :> t[5])

\* First entry of the .wsn whose decoded name, lower-cased, is 'summary.xml'.
SummaryOfWsn(entries) ==
    LET hits == {k \in 1..Len(entries) :
                    EndsWithXml(entries[k]) /\ entries[k].dir = ""}
    IN  IF hits = {} THEN 0 ELSE MinOf(hits)

\* parse_xml_data(xml_data), xml_data being what read_with_encoding gave;
\* an exception of either leaves the caller.
ParseDecoded(xml_data) ==
    IF xml_data.exc /= "none" THEN [exc |-> xml_data.exc, v |-> EmptyDict]
    ELSE parse_xml_data(xml_data.text)

ReadAndParse(x) == ParseDecoded(read_with_encoding(x))

\* with wsn_zip.open(summary_file_name): RuntimeError for an entry that
\* needs a password; nothing is opened when no entry is named summary.xml.
OpenSummary(entries, k) ==
    IF k = 0 THEN [exc |-> "none", v |-> EmptyDict]
    ELSE IF entries[k].encrypted THEN [exc |-> "RuntimeError", v |-> EmptyDict]
    ELSE ReadAndParse(entries[k].xml)

\* extracted_info['Version'] = 'Py'; extracted_info['file_path'] = path
Stamp(opened, path) ==
    IF opened.exc /= "none" THEN opened
    ELSE [exc |-> "none",
          v |-> Put(Put(opened.v, "Version", PyStr("Py")), "file_path", path)]

\* The WSN branch (332-352): only zipfile.BadZipFile is caught.
ExtractWsn(archive, actual_file_path) ==
    IF ~archive.zip THEN [exc |-> "none", v |-> BadZipInfo(actual_file_path)]
    ELSE Stamp(OpenSummary(archive.entries, SummaryOfWsn(archive.entries)),
               actual_file_path)

\* except Exception (378-379): the error is logged and {} is returned.
WsmResult(r, actual_file_path) ==
    IF r.exc /= "none" THEN [exc |-> "none", v |-> EmptyDict]
    ELSE [exc |-> "none", v |-> WsmInfo(r.v, actual_file_path)]

\* The WSM branch (356-379).
ExtractWsm(data, backing, actual_file_path) ==
    WsmResult(read_summary_data(NewCWFile(data, backing, FALSE), actual_file_path),
              actual_file_path)

extract_info_from_scenario(src, actual_file_path, is_zip) ==
    LET is_wsn == IF is_zip THEN FALSE ELSE src.lower = ".wsn" /\ src.exact
        is_wsm == IF is_zip THEN LowerName(src.base) = "summary.wsm"
                  ELSE src.lower = ".wsm" /\ src.exact
    IN  IF is_wsn THEN ExtractWsn(src.archive, actual_file_path)
        ELSE IF is_wsm
             THEN ExtractWsm(src.data, IF is_zip THEN "BytesIO" ELSE "FileIO",
                             actual_file_path)
        ELSE [exc |-> "none", v |-> EmptyDict]

(***************************************************************************)
(* parse_summary_from_zip (file_scanner.py 569-595) on an opened entry.    *)
(***************************************************************************)
parse_summary_from_zip(entry, actual_file_path) ==
    IF entry.empty THEN [exc |-> "none", v |-> EmptyDict]
    ELSE IF EndsWithXml(entry)
         THEN ReadAndParse(entry.xml)
    ELSE extract_info_from_scenario(entry, actual_file_path, TRUE)

(***************************************************************************)
(* The record find_files_with_content appends (508-527, 545-564).  The     *)
(* modification time and the constant fields (image_data, limit_value,     *)
(* play_time, mark, tags) are left out.                                    *)
(***************************************************************************)
FileData(extracted_info, file_path) ==
    LET coupons == Get(extracted_info, "RequiredCoupons", PyDict(EmptyDict)).v
    IN  [file_path |-> file_path,
         title |-> Get(extracted_info, "Name", PyStr(Unknown)),
         author |-> Get(extracted_info, "Author", PyStr(Unknown)),
         version |-> Get(extracted_info, "Version", PyStr("Py")),
         level_min |-> Get(extracted_info, "Level min", PyStr(<<>>)),
         level_max |-> Get(extracted_info, "Level max", PyStr(<<>>)),
         coupon_number |-> Get(coupons, "number", PyInt(0)),
         coupon_name |-> Get(coupons, "name", PyStr(<<>>)),
         image_paths |-> Get(extracted_info, "image_paths", PyList(<<>>)),
         position_types |-> Get(extracted_info, "position_types", PyList(<<>>)),
         description |-> Get(extracted_info, "description", PyStr(<<>>)),
         lang |-> Get(extracted_info, "language_code", PyStr("Unknown"))]

\* Body of the first loop for one file that is not a .zip (494-529).
Extracted(i, file) ==
    IF file.lower \in {".wsn", ".wsm"}
    THEN extract_info_from_scenario(file, Path(i), FALSE)
    ELSE ReadAndParse(file.xml)

\* if extracted_info: files.append(file_data)
Appended(extracted, file_path) ==
    IF extracted.exc /= "none" THEN [exc |-> extracted.exc, new |-> <<>>]
    ELSE IF Truthy(extracted.v)
         THEN [exc |-> "none",
               new |-> <<FileData(extracted.v,
                                  Get(extracted.v, "file_path", file_path))>>]
    ELSE [exc |-> "none", new |-> <<>>]

ScanOne(i, file) == Appended(Extracted(i, file), Path(i))

\* Body of the second loop for one zip (533-564): every entry whose decoded
\* name ends in summary.xml or summary.wsm is opened and parsed.  zip_ref.open
\* raises RuntimeError for an entry that needs a password.
RECURSIVE ScanEntries(_, _, _, _)
RECURSIVE AfterEntry(_, _, _, _, _)
\* Mutant of AfterEntry: the loop over the entries ends at the first record.
AfterEntryFirstOnly(i, entries, k, acc, r) ==
    IF r.exc /= "none" THEN [exc |-> r.exc, new |-> acc]
    ELSE IF Truthy(r.v)
         THEN [exc |-> "none",
               new |-> Append(acc, FileData(r.v, EntryPath(i, entries[k])))]
    ELSE ScanEntries(i, entries, k + 1, acc)

AfterEntry(i, entries, k, acc, r) ==
    IF r.exc /= "none" THEN [exc |-> r.exc, new |-> acc]
    ELSE ScanEntries(i, entries, k + 1,
                     IF Truthy(r.v)
                     THEN Append(acc, FileData(r.v, EntryPath(i, entries[k])))
                     ELSE acc)

ScanEntries(i, entries, k, acc) ==
    IF k > Len(entries) THEN [exc |-> "none", new |-> acc]
    ELSE IF LowerName(entries[k].base) \notin {"summary.xml", "summary.wsm"}
         THEN ScanEntries(i, entries, k + 1, acc)
    ELSE IF entries[k].encrypted THEN [exc |-> "RuntimeError", new |-> acc]
    ELSE AfterEntry(i, entries, k, acc,
                    parse_summary_from_zip(entries[k], EntryPath(i, entries[k])))

\* zipfile.ZipFile(zip_path, 'r') raises BadZipFile; nothing here catches it.
ScanZipFile(i, file) ==
    IF ~file.archive.zip THEN [exc |-> "BadZipFile", new |-> <<>>]
    ELSE ScanEntries(i, file.archive.entries, 1, <<>>)

(***************************************************************************)
(* Spec: find_files_with_content (file_scanner.py 478-567) over a tree.    *)
(* pc: "walk" in the first loop, "zips" in the second, "returned" after    *)
(* the return.  When an exception leaves the function, raised names it,    *)
(* pc and idx stay at the file that raised, and nothing is returned.       *)
(***************************************************************************)
RECURSIVE SeqsUpTo(_, _)
SeqsUpTo(S, n) ==
    IF n = 0 THEN {<<>>}
    ELSE LET shorter == SeqsUpTo(S, n - 1)
         IN  shorter \cup {Append(w, x) : w \in {v \in shorter : Len(v) = n - 1}, x \in S}

Init ==
    /\ walk \in SeqsUpTo(FileSamples, MaxFiles)
    /\ pc = "walk" /\ idx = 1 /\ zip_files = <<>> /\ files = <<>> /\ raised = "none"
    /\ ReaderIdle
    /\ FolderIdle
    /\ UiIdle
    /\ HandlesIdle
    /\ TextIdle

WalkFile ==
    /\ pc = "walk" /\ raised = "none" /\ idx <= Len(walk)
    /\ IF walk[idx].lower = ".zip"
       THEN /\ zip_files' = Append(zip_files, idx)
            /\ idx' = idx + 1
            /\ UNCHANGED <<pc, files, raised>>
       ELSE IF walk[idx].lower = "other"
       THEN /\ idx' = idx + 1
            /\ UNCHANGED <<pc, files, raised, zip_files>>
       ELSE \E r \in {ScanOne(idx, walk[idx])} :
               IF r.exc /= "none"
               THEN /\ raised' = r.exc
                    /\ UNCHANGED <<pc, idx, files, zip_files>>
               ELSE /\ files' = files \o r.new
                    /\ idx' = idx + 1
                    /\ UNCHANGED <<pc, raised, zip_files>>
    /\ UNCHANGED <<handlers, viewer, db, handles, arg, out, walk, cw, ret, summary, origin, folder, folderResult, warned>>

WalkDone ==
    /\ pc = "walk" /\ raised = "none" /\ idx > Len(walk)
    /\ pc' = "zips" /\ idx' = 1
    /\ UNCHANGED <<handlers, viewer, db, handles, arg, out, walk, zip_files, files, raised, cw, ret, summary, origin,
                   folder, folderResult, warned>>

ScanZip ==
    /\ pc = "zips" /\ raised = "none" /\ idx <= Len(zip_files)
    /\ \E r \in {ScanZipFile(zip_files[idx], walk[zip_files[idx]])} :
          IF r.exc /= "none"
          THEN /\ raised' = r.exc
               /\ files' = files \o r.new
               /\ UNCHANGED <<pc, idx>>
          ELSE /\ files' = files \o r.new
               /\ idx' = idx + 1
               /\ UNCHANGED <<pc, raised>>
    /\ UNCHANGED <<handlers, viewer, db, handles, arg, out, walk, zip_files, cw, ret, summary, origin, folder, folderResult,
                   warned>>

Return ==
    /\ pc = "zips" /\ raised = "none" /\ idx > Len(zip_files)
    /\ pc' = "returned"
    /\ UNCHANGED <<handlers, viewer, db, handles, arg, out, walk, idx, zip_files, files, raised, cw, ret, summary, origin,
                   folder, folderResult, warned>>

Next == WalkFile \/ WalkDone \/ ScanZip \/ Return

Spec == Init /\ [][Next]_vars

(***************************************************************************)
(* Properties of the scan, under Spec.                                     *)
(***************************************************************************)
\* The first loop is past file i.
Handled(i) == (pc = "walk" /\ idx > i) \/ pc \in {"zips", "returned"}

IsTruncatedWsm(file) ==
    /\ file.lower = ".wsm" /\ file.exact
    /\ file.data \in {CutInStepName, CutInStepSlots}

\* Files whose content decodes: the scan owes a record keyed by their path.
Decodable(file) ==
    \/ file = WsmFile(TRUE, SampleWsm)
    \/ file = XmlFile(XmlGood)
    \/ file = WsnFile(TRUE, Archive(<<XmlEntry("", "Summary.xml", FALSE, XmlGood)>>))

HasRecord(i) == \E k \in 1..Len(files) : files[k].file_path = Path(i)

\* C1: no single-file failure leaves find_files_with_content; the scan
\* returns, with the records of all the other files.
C1_NoFailureLeavesTheScan ==
    /\ raised = "none"
    /\ pc = "returned" =>
          \A i \in 1..Len(walk) : Decodable(walk[i]) => HasRecord(i)

\* C2: once a .wsm truncated inside its Step list has been met, its failure
\* is caught, and every file enumerated after it is still processed and its
\* record returned.
C2_TruncatedWsmDoesNotStopTheScan ==
    \A i \in 1..Len(walk) :
        (IsTruncatedWsm(walk[i]) /\ Handled(i)) =>
            /\ ~HasRecord(i)
            /\ raised = "none"
            /\ pc = "returned" =>
                  \A j \in (i + 1)..Len(walk) : Decodable(walk[j]) => HasRecord(j)

(***************************************************************************)
(* What does hold of the scan: the step that meets a truncated .wsm raises *)
(* nothing, appends nothing and moves on to the next file; and the only    *)
(* exceptions that leave the scan are those of the handlers that catch     *)
(* too little.                                                             *)
(***************************************************************************)
TruncatedWsmIsSkipped ==
    [][(pc = "walk" /\ idx <= Len(walk) /\ IsTruncatedWsm(walk[idx]))
          => (pc' = "walk" /\ idx' = idx + 1 /\ files' = files /\ raised' = raised)]_vars

OnlyTheseLeaveTheScan ==
    raised \in {"none", "BadZipFile", "RuntimeError", "LookupError", "ValueError"}

(***************************************************************************)
(* Records of archive entries, under Spec.                                 *)
(***************************************************************************)
NestedWsmZip == ZipFile(Archive(<<WsmEntry("d/", "SUMMARY.WSM", FALSE, SampleWsm)>>))

\* C11 as stated: the record of SUMMARY.WSM, one directory down in a zip, is
\* keyed "<zipPath>!SUMMARY.WSM".
C11_NestedEntryKeyedByBaseName ==
    pc = "returned" =>
        \A i \in 1..Len(walk) :
            walk[i] = NestedWsmZip =>
                \E k \in 1..Len(files) :
                    files[k].file_path = [file |-> i, entry |-> "SUMMARY.WSM", dir |-> ""]

\* C11, amended: a record made from an entry comes from a qualifying entry
\* of a .zip and is keyed "<zipPath>!<entry name with its directory>"; the
\* nested SUMMARY.WSM is found and decoded by the binary decoder, and keyed
\* "<zipPath>!d/SUMMARY.WSM".  Records of a .wsn carry the .wsn path alone.
C11_EntryKeyedByFullEntryName ==
    /\ \A k \in 1..Len(files) :
          files[k].file_path.entry /= "" =>
              /\ files[k].file_path.file \in 1..Len(walk)
              /\ walk[files[k].file_path.file].lower = ".zip"
              /\ \E n \in 1..Len(walk[files[k].file_path.file].archive.entries) :
                    /\ walk[files[k].file_path.file].archive.entries[n].base
                          = files[k].file_path.entry
                    /\ walk[files[k].file_path.file].archive.entries[n].dir
                          = files[k].file_path.dir
                    /\ LowerName(files[k].file_path.entry)
                          \in {"summary.xml", "summary.wsm"}
    /\ pc = "returned" =>
          \A i \in 1..Len(walk) :
              walk[i] = NestedWsmZip =>
                  \E k \in 1..Len(files) :
                      /\ files[k].file_path
                            = [file |-> i, entry |-> "SUMMARY.WSM", dir |-> "d/"]
                      /\ files[k].version = PyStr("OG")
                      /\ files[k].title = PyStr(<<65>>)

C11_Witness ==
    /\ pc = "returned"
    /\ \E i \in 1..Len(walk), k \in 1..Len(files) :
          /\ walk[i] = NestedWsmZip
          /\ files[k].file_path = [file |-> i, entry |-> "SUMMARY.WSM", dir |-> "d/"]
          /\ files[k].version = PyStr("OG")

\* The exception in flight left the scan while it was at file i.
RaisedAt(i) ==
    /\ raised /= "none"
    /\ \/ pc = "walk" /\ idx = i
       \/ pc = "zips" /\ idx <= Len(zip_files) /\ zip_files[idx] = i

RecordFrom(i) == \E k \in 1..Len(files) : files[k].file_path.file = i

Qualifies(e) == LowerName(e.base) \in {"summary.xml", "summary.wsm"}

\* An archive that does not open, or that has no summary entry: none named
\* summary.xml at its top for a .wsn, none qualifying for a .zip.
IsArchiveWithoutSummary(file) ==
    /\ file.lower \in {".zip", ".wsn"} /\ file.exact
    /\ \/ ~file.archive.zip
       \/ file.lower = ".wsn" /\ SummaryOfWsn(file.archive.entries) = 0
       \/ /\ file.lower = ".zip"
          /\ \A n \in 1..Len(file.archive.entries) : ~Qualifies(file.archive.entries[n])

\* C12: an archive with no qualifying summary entry, or that does not open
\* as an archive, contributes no record, and the scan goes on past it.
C12_ArchiveWithoutSummaryIsSkipped ==
    \A i \in 1..Len(walk) :
        IsArchiveWithoutSummary(walk[i]) => (~RecordFrom(i) /\ ~RaisedAt(i))

\* What does hold: only the .zip with no qualifying entry is skipped.
ZipWithoutSummaryIsSkipped ==
    \A i \in 1..Len(walk) :
        (IsArchiveWithoutSummary(walk[i]) /\ walk[i].lower = ".zip" /\ walk[i].archive.zip)
            => (~RecordFrom(i) /\ ~RaisedAt(i))

HasEncryptedEntry(file) ==
    /\ file.lower = ".zip" /\ file.archive.zip
    /\ \E n \in 1..Len(file.archive.entries) :
          Qualifies(file.archive.entries[n]) /\ file.archive.entries[n].encrypted

\* C13: a qualifying zip entry that needs a password is skipped; the scan
\* goes on, and the other entries of the archive still give their records.
C13_EncryptedEntryIsSkipped ==
    \A i \in 1..Len(walk) :
        HasEncryptedEntry(walk[i]) =>
            /\ ~RaisedAt(i)
            /\ pc = "returned" =>
                  \A n \in 1..Len(walk[i].archive.entries) :
                      walk[i].archive.entries[n] = WsmEntry("", "summary.wsm", FALSE, SampleWsm)
                          => \E k \in 1..Len(files) :
                                files[k].file_path
                                    = [file |-> i, entry |-> "summary.wsm", dir |-> ""]

FailsToDecode(file) == IsTruncatedWsm(file) \/ file = XmlFile(XmlMalformed)

\* C14: a file whose decode fails - a truncated .wsm, a Summary.xml that
\* does not parse - has a default record under its path in the output.
C14_FailedDecodeGivesDefaultRecord ==
    \A i \in 1..Len(walk) :
        (FailsToDecode(walk[i]) /\ Handled(i)) =>
            \E k \in 1..Len(files) :
                /\ files[k].file_path = Path(i)
                /\ files[k].title = PyStr(Unknown)
                /\ files[k].author = PyStr(Unknown)

\* What does hold: such a file has no record at all.
FailedDecodeGivesNoRecord ==
    \A i \in 1..Len(walk) : FailsToDecode(walk[i]) => ~RecordFrom(i)

IsNumber(v) == v.t = "int"

\* C15: every record has every field filled: the texts are strings, the
\* lists are lists, and level-min, level-max and the coupon count are
\* numbers (0 when the source lacks them), never null or a placeholder.
C15_EveryFieldHasItsDefault ==
    \A k \in 1..Len(files) :
        /\ files[k].title.t = "str" /\ files[k].author.t = "str"
        /\ files[k].coupon_name.t = "str" /\ files[k].description.t = "str"
        /\ files[k].image_paths.t = "list" /\ files[k].position_types.t = "list"
        /\ IsNumber(files[k].level_min) /\ IsNumber(files[k].level_max)
        /\ IsNumber(files[k].coupon_number)

\* What does hold: the fields are never null, and the coupon count is a
\* number; the levels are numbers only in records of .wsm streams.
RecordFieldsAreNotNull ==
    \A k \in 1..Len(files) :
        /\ files[k].title.t = "str" /\ files[k].author.t = "str"
        /\ files[k].coupon_name.t = "str" /\ files[k].description.t = "str"
        /\ files[k].image_paths.t = "list" /\ files[k].position_types.t = "list"
        /\ files[k].level_min.t \in {"int", "str"}
        /\ files[k].level_max.t \in {"int", "str"}
        /\ IsNumber(files[k].coupon_number)
        /\ IsNumber(files[k].level_min) <=> files[k].version.v \in {"OG", "NEXT"}

(***************************************************************************)
(* SpecHandles: extract_info_from_scenario called on one file after the    *)
(* other, with the operating-system handles each call opened.  A handle    *)
(* acquired in a with statement is closed when the block is left, by       *)
(* return or by exception.  CWFile(file_path, 'rb') is neither closed nor  *)
(* used in a with statement: its io.FileIO is closed only when the         *)
(* interpreter finalises the object, which the language leaves to the      *)
(* implementation, so at the return it is either closed already or not.    *)
(***************************************************************************)
ZipHandle == [kind |-> "ZipFile", scoped |-> TRUE]
EntryHandle == [kind |-> "ZipExtFile", scoped |-> TRUE]
RawFileHandle == [kind |-> "FileIO", scoped |-> FALSE]

\* with wsn_zip.open(summary_file_name): no entry, or one that needs a
\* password, gives no handle.
EntryOpened(entries, k) ==
    IF k = 0 THEN <<>> ELSE IF entries[k].encrypted THEN <<>> ELSE <<EntryHandle>>

\* The handles a call on the file opens, in order.
Opened(file) ==
    IF file.lower = ".wsn" /\ file.exact
    THEN <<ZipHandle>> \o (IF file.archive.zip
                           THEN EntryOpened(file.archive.entries,
                                            SummaryOfWsn(file.archive.entries))
                           ELSE <<>>)
    ELSE IF file.lower = ".wsm" /\ file.exact THEN <<RawFileHandle>>
    ELSE <<>>

\* The handles as the call leaves them.
AtReturn(opened, finalised) ==
    [k \in 1..Len(opened) |->
        [kind |-> opened[k].kind, closed |-> opened[k].scoped \/ finalised]]

ScenarioFiles == {file \in FileSamples : file.lower \in {".wsn", ".wsm"}}

InitHandles ==
    /\ handles = <<>>
    /\ ReaderIdle
    /\ ScanIdle
    /\ FolderIdle
    /\ UiIdle
    /\ TextIdle

ExtractInfoFromScenario ==
    /\ Len(handles) < MaxCalls
    /\ \E file \in ScenarioFiles, finalised \in BOOLEAN :
          \E r \in {extract_info_from_scenario(file, Path(Len(handles) + 1), FALSE)} :
              handles' = Append(handles, [file |-> file, exc |-> r.exc,
                                          decoded |-> Truthy(r.v),
                                          opened |-> AtReturn(Opened(file), finalised)])
    /\ UNCHANGED <<handlers, viewer, db, arg, out, cw, ret, summary, origin, walk, pc, idx, zip_files,
                   files, raised, folder, folderResult, warned>>

NextHandles == ExtractInfoFromScenario

SpecHandles == InitHandles /\ [][NextHandles]_vars

\* C16: every handle a decode call opened - the raw file behind CWFile for
\* a plain .wsm, the ZipFile, the opened entry - is closed when the call
\* returns, whether it decoded or failed, after any sequence of calls.
C16_HandlesClosedAtReturn ==
    \A c \in 1..Len(handles) :
        \A k \in 1..Len(handles[c].opened) : handles[c].opened[k].closed

\* What does hold: the archive and entry handles are closed on every path;
\* the only handle a call can leave open is the raw file of a plain .wsm.
OnlyRawFileLeftOpen ==
    \A c \in 1..Len(handles) :
        \A k \in 1..Len(handles[c].opened) :
            ~handles[c].opened[k].closed =>
                /\ handles[c].opened[k].kind = "FileIO"
                /\ handles[c].file.lower = ".wsm"

(***************************************************************************)
(* SpecLanguage: detect_language applied to a text with any counts of      *)
(* Hangul, Hiragana and Katakana characters up to MaxCount each.           *)
(***************************************************************************)
InitLanguage ==
    /\ \E h \in 0..MaxCount, hi \in 0..MaxCount, k \in 0..MaxCount :
          arg = [given |-> TRUE, fn |-> "detect_language",
                 counts |-> [hangul |-> h, hiragana |-> hi, katakana |-> k]]
    /\ out = NoOut
    /\ ReaderIdle
    /\ ScanIdle
    /\ FolderIdle
    /\ UiIdle
    /\ HandlesIdle

DetectLanguage ==
    /\ arg.given /\ arg.fn = "detect_language" /\ ~out.done
    /\ out' = [done |-> TRUE, exc |-> "none", v |-> detect_language(arg.counts)]
    /\ UNCHANGED <<handlers, viewer, db, arg, handles, cw, ret, summary, origin, walk, pc, idx, zip_files,
                   files, raised, folder, folderResult, warned>>

NextLanguage == DetectLanguage

SpecLanguage == InitLanguage /\ [][NextLanguage]_vars

Detected == arg.given /\ arg.fn = "detect_language" /\ out.done

KrApplies(c) == c.hangul > c.hiragana + c.katakana
JpApplies(c) == c.hiragana > c.hangul \/ c.katakana > c.hangul
CountsTie(c) ==
    c.hangul = c.hiragana + c.katakana \/ c.hiragana = c.hangul \/ c.katakana = c.hangul
AllZero(c) == c.hangul = 0 /\ c.hiragana = 0 /\ c.katakana = 0

\* C19 as stated: kr when Hangul exceeds Hiragana + Katakana, jp when
\* Hiragana or Katakana exceeds Hangul, unknown only on a tie or on a text
\* with none of the three, and kr and jp never both applicable.
C19_UnknownOnlyOnTieOrZero ==
    Detected =>
        /\ KrApplies(arg.counts) => out.v = "kr"
        /\ JpApplies(arg.counts) => out.v = "jp"
        /\ out.v = "None" => (CountsTie(arg.counts) \/ AllZero(arg.counts))
        /\ ~(KrApplies(arg.counts) /\ JpApplies(arg.counts))

\* C19: detect_language returns kr exactly when Hangul exceeds
\* Hiragana + Katakana, jp exactly when Hiragana or Katakana exceeds Hangul,
\* and unknown exactly in the rest: Hangul at most Hiragana + Katakana and at
\* least each of the two.  kr and jp are never both applicable.
C19_DetectLanguageRules ==
    Detected =>
        /\ out.v = "kr" <=> KrApplies(arg.counts)
        /\ out.v = "jp" <=> JpApplies(arg.counts)
        /\ out.v = "None" <=>
              /\ arg.counts.hangul <= arg.counts.hiragana + arg.counts.katakana
              /\ arg.counts.hiragana <= arg.counts.hangul
              /\ arg.counts.katakana <= arg.counts.hangul
        /\ ~(KrApplies(arg.counts) /\ JpApplies(arg.counts))

\* Japanese characters outnumber Hangul together, neither class does alone,
\* no two counts are equal: the result is unknown.
C19_Witness ==
    /\ Detected
    /\ arg.counts = [hangul |-> 4, hiragana |-> 3, katakana |-> 2]
    /\ out.v = "None"

(***************************************************************************)
(* SpecText: the two text decoders applied to one byte buffer.  A buffer   *)
(* is described by what decides the decoders' paths: the byte-order mark   *)
(* it starts with, the encoding="..." declaration in its first 100 bytes,  *)
(* the codecs under which all of its bytes decode, and what chardet says.  *)
(*   decodes: "declared" - under the declared codec (UTF-8 if none),       *)
(*            "cp932"    - under CP932 / Shift_JIS;                        *)
(*   valid:   "utf-8", "utf-16" - under UTF-8, under the BOM's UTF-16.     *)
(* A buffer starting with EF BB BF does not decode under CP932 or          *)
(* Shift_JIS; one starting with FF FE or FE FF does not decode under UTF-8 *)
(* and its declaration, interleaved with NUL bytes, is not found.          *)
(***************************************************************************)
Boms == {"none", "utf-8", "utf-16-le", "utf-16-be"}
Declarations == {"none", "utf-8", "shift_jis", "bogus"}
Detections == {"None", "utf-8", "cp932"}

IsBuffer(x) ==
    /\ x.declared \in {"none", "utf-8"} => ("utf-8" \in x.valid <=> "declared" \in x.decodes)
    /\ x.declared = "shift_jis" => ("declared" \in x.decodes => "cp932" \in x.decodes)
    /\ x.declared = "bogus" => "declared" \notin x.decodes
    /\ x.bom = "none" => "utf-16" \notin x.valid
    /\ x.bom = "utf-8" => (x.decodes \subseteq {"declared"} /\ x.declared /= "bogus"
                            /\ "utf-16" \notin x.valid /\ x.detected = "utf-8"
                            /\ (x.declared = "shift_jis" => x.decodes = {}))
    /\ x.bom \in {"utf-16-le", "utf-16-be"} =>
          (x.declared = "none" /\ "utf-8" \notin x.valid /\ x.detected = "None")

Buffers ==
    {x \in [bom : Boms, declared : Declarations, decodes : SUBSET {"declared", "cp932"},
            valid : SUBSET {"utf-8", "utf-16"}, detected : Detections] : IsBuffer(x)}

\* The codec that produced the text read_with_encoding returned.
CodecUsed(text) ==
    IF text.decodes = {"declared"}
    THEN (IF text.declared = "none" THEN "utf-8" ELSE text.declared)
    ELSE IF text.decodes = {"cp932"} THEN "cp932" ELSE "utf-8-ignore"

\* bytes.decode("utf-8") and decode("utf-8", errors="ignore") turn a leading
\* EF BB BF into U+FEFF and keep it; decode("utf-16-le") and
\* decode("utf-16-be") keep the mark too; decode("utf-8-sig") drops it.
KeepsBom(bom, codec) ==
    \/ bom = "utf-8" /\ codec \in {"utf-8", "utf-8-ignore"}
    \/ bom = codec /\ codec \in {"utf-16-le", "utf-16-be"}

\* bytes.decode(codec) of the buffer succeeds.
DecodesUnder(x, codec) ==
    IF codec = "utf-8" THEN "utf-8" \in x.valid ELSE "cp932" \in x.decodes

\* detect_encoding (detail_viewer.py 92-100): chardet's answer, UTF-8 when
\* it has none.
detect_encoding(x) == IF x.detected = "None" THEN "utf-8" ELSE x.detected

\* The loop over encodings: the first codec that decodes the buffer; the
\* last one, latin-1, decodes every buffer.
FirstThatDecodes(x) ==
    IF DecodesUnder(x, "utf-8") THEN "utf-8"
    ELSE IF DecodesUnder(x, "cp932") THEN "shift_jis"
    ELSE "latin-1"

Returned(codec) == [exc |-> "none", codec |-> codec]

\* InfoDetailViewer.decode_file_data (detail_viewer.py 450-478).  The decode
\* of a branch chosen by the byte-order mark is not inside a try.
decode_file_data(x) ==
    IF x.bom = "utf-8"
    THEN IF "utf-8" \in x.valid THEN Returned("utf-8-sig")
         ELSE [exc |-> "UnicodeDecodeError", codec |-> "none"]
    ELSE IF x.bom \in {"utf-16-le", "utf-16-be"}
    THEN IF "utf-16" \in x.valid THEN Returned(x.bom)
         ELSE [exc |-> "UnicodeDecodeError", codec |-> "none"]
    ELSE IF DecodesUnder(x, detect_encoding(x)) THEN Returned(detect_encoding(x))
    ELSE Returned(FirstThatDecodes(x))

InitText ==
    /\ \E x \in Buffers : arg = [given |-> TRUE, fn |-> "decode", buf |-> x]
    /\ out = NoOut
    /\ ReaderIdle
    /\ ScanIdle
    /\ FolderIdle
    /\ UiIdle
    /\ HandlesIdle

TextCalled(fn, exc, codec) ==
    /\ out' = [done |-> TRUE, fn |-> fn, exc |-> exc, codec |-> codec,
               feff |-> exc = "none" /\ KeepsBom(arg.buf.bom, codec)]
    /\ UNCHANGED <<handlers, viewer, db, arg, handles, cw, ret, summary, origin, walk, pc, idx, zip_files,
                   files, raised, folder, folderResult, warned>>

ReadWithEncoding ==
    /\ arg.given /\ arg.fn = "decode" /\ ~out.done
    /\ \E r \in {read_with_encoding(arg.buf)} :
          TextCalled("read_with_encoding", r.exc,
                     IF r.exc = "none" THEN CodecUsed(r.text) ELSE "none")

DecodeFileData ==
    /\ arg.given /\ arg.fn = "decode" /\ ~out.done
    /\ \E r \in {decode_file_data(arg.buf)} :
          TextCalled("decode_file_data", r.exc, r.codec)

NextText == ReadWithEncoding \/ DecodeFileData

SpecText == InitText /\ [][NextText]_vars

TextDecoded == arg.given /\ arg.fn = "decode" /\ out.done

\* C17: a buffer that starts with the UTF-8 BOM is decoded as UTF-8 and the
\* text returned does not begin with the BOM character; a byte-order mark
\* (UTF-8, UTF-16 LE, UTF-16 BE) decides the decoding before the
\* encoding="..." declaration and every other heuristic.
C17_BomSniffingFirst ==
    TextDecoded =>
        /\ (arg.buf.bom = "utf-8" /\ "utf-8" \in arg.buf.valid) =>
              (out.exc = "none" /\ out.codec \in {"utf-8", "utf-8-sig"} /\ ~out.feff)
        /\ (arg.buf.bom \in {"utf-16-le", "utf-16-be"} /\ "utf-16" \in arg.buf.valid) =>
              (out.exc = "none" /\ out.codec = arg.buf.bom)

\* What does hold: decode_file_data looks at the byte-order mark first;
\* read_with_encoding never does, and keeps the mark of a UTF-8 buffer.
BomSniffingPerDecoder ==
    TextDecoded =>
        /\ (out.fn = "decode_file_data" /\ arg.buf.bom = "utf-8" /\ out.exc = "none") =>
              (out.codec = "utf-8-sig" /\ ~out.feff)
        /\ (out.fn = "decode_file_data" /\ arg.buf.bom \in {"utf-16-le", "utf-16-be"}
               /\ out.exc = "none") => out.codec = arg.buf.bom
        /\ (out.fn = "read_with_encoding" /\ arg.buf.bom = "utf-8") =>
              (out.exc = "none" /\ out.feff)
        /\ (out.fn = "read_with_encoding" /\ arg.buf.bom \in {"utf-16-le", "utf-16-be"}) =>
              (out.exc = "none" /\ out.codec \in {"cp932", "utf-8-ignore"})

\* C18: read_with_encoding returns a string for every buffer and never
\* raises: when the decode under the declared codec (UTF-8 if none) fails,
\* for invalid bytes or for a codec name that is not known, CP932 is tried,
\* and when that fails too the buffer is force-decoded as UTF-8.
C18_ReadWithEncodingNeverRaises ==
    (TextDecoded /\ out.fn = "read_with_encoding") =>
        /\ out.exc = "none"
        /\ "declared" \notin arg.buf.decodes =>
              out.codec = (IF "cp932" \in arg.buf.decodes THEN "cp932" ELSE "utf-8-ignore")

\* What does hold: only the unknown codec name leaves read_with_encoding.
OnlyUnknownCodecRaises ==
    (TextDecoded /\ out.fn = "read_with_encoding") =>
        /\ out.exc = (IF arg.buf.declared = "bogus" THEN "LookupError" ELSE "none")
        /\ (out.exc = "none" /\ "declared" \notin arg.buf.decodes) =>
              out.codec = (IF "cp932" \in arg.buf.decodes THEN "cp932" ELSE "utf-8-ignore")

(***************************************************************************)
(* JapaneseZipHandler (utils_and_ui.py 11-141).  An entry name, as zipfile *)
(* gives it, is described by what decides the handler's path: the suffix   *)
(* it ends with in lower case, whether its UTF-8 flag bit is set, whether  *)
(* name.encode('cp437') succeeds, whether the name itself matches          *)
(* VALID_FILENAME, and for each codec what the re-encoded bytes decode to: *)
(* ok - no UnicodeDecodeError, jp - the text has a Hiragana, Katakana or   *)
(* CJK-ideograph character, valid - the text matches VALID_FILENAME.       *)
(***************************************************************************)
Err == [ok |-> FALSE, jp |-> FALSE, valid |-> FALSE]
Text(jp, valid) == [ok |-> TRUE, jp |-> jp, valid |-> valid]

Decodings(cp932, shift_jis, euc_jp, utf8) ==
    ("cp932" :> cp932) @@ ("shift_jis" :> shift_jis) @@ ("euc_jp" :> euc_jp)
        @@ ("utf-8" :> utf8)

EntryName(suffix, flag, encodable, rawValid, dec) ==
    [suffix |-> suffix, flag |-> flag, encodable |-> encodable,
     rawValid |-> rawValid, dec |-> dec]

\* Hiragana A written in CP932 / Shift_JIS (82 A0).
SjisName(suffix) ==
    EntryName(suffix, FALSE, TRUE, FALSE,
              Decodings(Text(TRUE, TRUE), Text(TRUE, TRUE), Err, Err))
\* Hiragana A written in EUC-JP (A4 A2): half-width marks under CP932.
EucName(suffix) ==
    EntryName(suffix, FALSE, TRUE, FALSE,
              Decodings(Text(FALSE, FALSE), Text(FALSE, FALSE), Text(TRUE, TRUE), Err))
\* Circled digit one, an NEC extension of CP932 (87 40): no other candidate
\* decodes it, and it is in none of the three script ranges.
NecName(suffix) ==
    EntryName(suffix, FALSE, TRUE, FALSE,
              Decodings(Text(FALSE, FALSE), Err, Err, Err))
\* Hiragana A followed by the circled digit under CP932.
MixedName(suffix) ==
    EntryName(suffix, FALSE, TRUE, FALSE,
              Decodings(Text(TRUE, FALSE), Err, Err, Err))
\* Hiragana A written in UTF-8 (E3 81 82) in an entry without the flag.
Utf8BytesName(suffix) ==
    EntryName(suffix, FALSE, TRUE, FALSE,
              Decodings(Err, Err, Err, Text(TRUE, TRUE)))
\* Two kanji written in EUC-JP, the first with a lead byte CP932 reads as a
\* kanji (E4 C6 A4 A2): CP932 gives a kanji and two half-width marks.
EucKanjiName(suffix) ==
    EntryName(suffix, FALSE, TRUE, FALSE,
              Decodings(Text(TRUE, FALSE), Text(TRUE, FALSE), Text(TRUE, TRUE), Err))
AsciiName(suffix, flag) ==
    EntryName(suffix, flag, TRUE, TRUE,
              Decodings(Text(FALSE, TRUE), Text(FALSE, TRUE), Text(FALSE, TRUE),
                        Text(FALSE, TRUE)))
\* A flagged entry named in Japanese: zipfile has decoded it as UTF-8 and
\* the name has no CP437 bytes.
FlaggedJapaneseName(suffix) ==
    EntryName(suffix, TRUE, FALSE, TRUE, Decodings(Err, Err, Err, Err))

Suffixes == {"wsm", "summary.xml", "txt", "other"}

EntryNames ==
    {SjisName(x) : x \in Suffixes} \cup {EucName(x) : x \in {"wsm", "txt"}}
      \cup {NecName("wsm"), MixedName("wsm"), EucKanjiName("wsm"), Utf8BytesName("summary.xml"),
            AsciiName("other", FALSE), AsciiName("wsm", TRUE),
            FlaggedJapaneseName("wsm"), FlaggedJapaneseName("other")}

\* raw_bytes.decode(encoding): cp437 gives the name back.
DecodeName(name, encoding) ==
    IF encoding = "cp437" THEN Text(FALSE, name.rawValid) ELSE name.dec[encoding]

Candidates == <<"cp932", "shift_jis", "euc_jp">>
BackupEncodings == <<"cp932", "shift_jis", "euc_jp", "utf-8">>

\* for enc in ['cp932', 'shift_jis', 'euc_jp'], from the k-th on.
RECURSIVE FirstJapanese(_, _)
FirstJapanese(name, k) ==
    IF k > Len(Candidates) THEN "cp437"
    ELSE IF DecodeName(name, Candidates[k]).ok /\ DecodeName(name, Candidates[k]).jp
         THEN Candidates[k]
    ELSE FirstJapanese(name, k + 1)

\* Mutant of detect_filename_encoding: only the first entry's flag is read.
detect_filename_encodingFirstFlag(entries) ==
    IF entries = <<>> THEN "cp437"
    ELSE IF entries[1].flag THEN "utf-8"
    ELSE IF ~entries[1].encodable THEN "cp437"
    ELSE FirstJapanese(entries[1], 1)

\* Mutant of detect_filename_encoding: a candidate that decodes is taken
\* whatever its text holds.
RECURSIVE FirstDecoding(_, _)
FirstDecoding(name, k) ==
    IF k > Len(Candidates) THEN "cp437"
    ELSE IF DecodeName(name, Candidates[k]).ok THEN Candidates[k]
    ELSE FirstDecoding(name, k + 1)

detect_filename_encodingAnyText(entries) ==
    IF \E n \in 1..Len(entries) : entries[n].flag THEN "utf-8"
    ELSE IF entries = <<>> THEN "cp437"
    ELSE IF ~entries[1].encodable THEN "cp437"
    ELSE FirstDecoding(entries[1], 1)

\* detect_filename_encoding (32-68).  namelist()[0] of an empty archive and
\* a name that has no CP437 bytes raise inside the try: cp437.
detect_filename_encoding(entries) ==
    IF \E n \in 1..Len(entries) : entries[n].flag THEN "utf-8"
    ELSE IF entries = <<>> THEN "cp437"
    ELSE IF ~entries[1].encodable THEN "cp437"
    ELSE FirstJapanese(entries[1], 1)

NewHandler(entries) == [entries |-> entries, encoding |-> "None", detections |-> 0]

\* Mutant of Resolved: the cached encoding is not consulted.
ResolvedNotCached(h) ==
    [entries |-> h.entries, encoding |-> detect_filename_encoding(h.entries),
     detections |-> h.detections + 1]

\* if not self.encoding: self.detect_filename_encoding()
Resolved(h) ==
    IF h.encoding /= "None" THEN h
    ELSE [entries |-> h.entries, encoding |-> detect_filename_encoding(h.entries),
          detections |-> h.detections + 1]

Original == [exc |-> "none", v |-> "original", codec |-> "none"]
DecodedWith(codec) == [exc |-> "none", v |-> "decoded", codec |-> codec]

\* for backup_enc in ['cp932', 'shift_jis', 'euc_jp', 'utf-8'], from the
\* k-th on; a backup that raises UnicodeDecodeError is passed over.
RECURSIVE FirstValidBackup(_, _, _)
FirstValidBackup(name, encoding, k) ==
    IF k > Len(BackupEncodings) THEN Original
    ELSE IF BackupEncodings[k] /= encoding /\ DecodeName(name, BackupEncodings[k]).valid
         THEN DecodedWith(BackupEncodings[k])
    ELSE FirstValidBackup(name, encoding, k + 1)

\* The try body both functions share, once the name has CP437 bytes: a
\* UnicodeDecodeError of the first decode ends the try.
DecodeOrBackup(name, encoding) ==
    IF ~DecodeName(name, encoding).ok THEN Original
    ELSE IF DecodeName(name, encoding).valid THEN DecodedWith(encoding)
    ELSE FirstValidBackup(name, encoding, 1)

\* Mutant of EndsWithScenarioSuffix: .txt is taken as well.
EndsWithScenarioOrTxtSuffix(name) == name.suffix \in {"wsm", "summary.xml", "txt"}

\* filename.lower().endswith(('.wsm', 'summary.xml'))
EndsWithScenarioSuffix(name) == name.suffix \in {"wsm", "summary.xml"}

\* filename.lower().endswith(".txt")
EndsWithTxt(name) == name.suffix = "txt"

\* get_real_filename (70-102) with self.encoding resolved when the suffix
\* is one it handles.  Only UnicodeDecodeError is caught.
get_real_filename(name, encoding) ==
    IF ~EndsWithScenarioSuffix(name) THEN Original
    ELSE IF ~name.encodable THEN [exc |-> "UnicodeEncodeError", v |-> "none", codec |-> "none"]
    ELSE DecodeOrBackup(name, encoding)

\* get_real_filename_for_txt (104-134): None for a name that is not .txt;
\* UnicodeEncodeError is caught here.
get_real_filename_for_txt(name, encoding) ==
    IF ~EndsWithTxt(name) THEN [exc |-> "none", v |-> "None", codec |-> "none"]
    ELSE IF ~name.encodable THEN Original
    ELSE DecodeOrBackup(name, encoding)

(***************************************************************************)
(* SpecNames: two handlers, each opened on its own archive, and any        *)
(* sequence of get_real_filename / get_real_filename_for_txt /             *)
(* list_contents calls on them.  arg is the last call, out its result.     *)
(***************************************************************************)
Archives == UNION {[1..n -> EntryNames] : n \in 0..MaxEntries}

OtherArchives == {<<>>, <<EucName("wsm")>>, <<AsciiName("wsm", TRUE)>>}

InitNames ==
    /\ \E a \in Archives, b \in OtherArchives : handlers = <<NewHandler(a), NewHandler(b)>>
    /\ arg = NoArg
    /\ out = NoOut
    /\ viewer = NoViewer
    /\ db = NoDb
    /\ ReaderIdle
    /\ ScanIdle
    /\ FolderIdle
    /\ HandlesIdle

NamesCalled(fn, h, n, after, r) ==
    /\ after.detections <= MaxDetections
    /\ handlers' = [handlers EXCEPT ![h] = after]
    /\ arg' = [given |-> TRUE, fn |-> fn, h |-> h, n |-> n]
    /\ out' = [done |-> TRUE, exc |-> r.exc, v |-> r.v, codec |-> r.codec,
               before |-> handlers[h].encoding]
    /\ UNCHANGED <<viewer, db, handles, cw, ret, summary, origin, walk, pc, idx,
                   zip_files, files, raised, folder, folderResult, warned>>

GetRealFilename ==
    \E h \in 1..Len(handlers) : \E n \in 1..Len(handlers[h].entries) :
        \E after \in {IF EndsWithScenarioSuffix(handlers[h].entries[n])
                       THEN Resolved(handlers[h]) ELSE handlers[h]} :
            NamesCalled("get_real_filename", h, n, after,
                        get_real_filename(handlers[h].entries[n], after.encoding))

GetRealFilenameForTxt ==
    \E h \in 1..Len(handlers) : \E n \in 1..Len(handlers[h].entries) :
        \E after \in {IF EndsWithTxt(handlers[h].entries[n])
                       THEN Resolved(handlers[h]) ELSE handlers[h]} :
            NamesCalled("get_real_filename_for_txt", h, n, after,
                        get_real_filename_for_txt(handlers[h].entries[n], after.encoding))

\* list_contents (138-140): get_real_filename on every name in order; the
\* first one that raises ends the call.
ListContents ==
    \E h \in 1..Len(handlers) :
        \E after \in {IF \E n \in 1..Len(handlers[h].entries) :
                            EndsWithScenarioSuffix(handlers[h].entries[n])
                       THEN Resolved(handlers[h]) ELSE handlers[h]} :
            NamesCalled("list_contents", h, 0, after,
                IF \E n \in 1..Len(after.entries) :
                       get_real_filename(after.entries[n], after.encoding).exc /= "none"
                THEN [exc |-> "UnicodeEncodeError", v |-> "none", codec |-> "none"]
                ELSE [exc |-> "none", codec |-> "none",
                      v |-> [n \in 1..Len(after.entries) |->
                                get_real_filename(after.entries[n], after.encoding)]])

NextNames == GetRealFilename \/ GetRealFilenameForTxt \/ ListContents

SpecNames == InitNames /\ [][NextNames]_vars

HasFlag(entries) == \E n \in 1..Len(entries) : entries[n].flag

\* C21: detect_filename_encoding gives utf-8 whenever some entry of the
\* archive has the UTF-8 flag bit, wherever that entry is and whatever the
\* first entry's name would decode to.
C21_FlagAnywhereGivesUtf8 ==
    \A h \in 1..Len(handlers) :
        (handlers[h].encoding /= "None" /\ HasFlag(handlers[h].entries))
            => handlers[h].encoding = "utf-8"

\* The flag is on the second entry only; the first entry's name is Japanese
\* under CP932.
C21_Witness ==
    \E h \in 1..Len(handlers) :
        /\ handlers[h].entries = <<SjisName("wsm"), AsciiName("wsm", TRUE)>>
        /\ handlers[h].encoding = "utf-8"
        /\ handlers[h].detections = 1

\* The candidate decodes the first entry's name to text with a Hiragana,
\* Katakana or CJK-ideograph character.
Qualifying(entries, c) ==
    /\ entries /= <<>> /\ entries[1].encodable
    /\ DecodeName(entries[1], c).ok /\ DecodeName(entries[1], c).jp

\* The first of cp932, shift_jis, euc_jp that qualifies is the encoding;
\* cp437 when none does.
FirstQualifyingIsSelected(h) ==
    /\ \A k \in 1..Len(Candidates) :
          handlers[h].encoding = Candidates[k] <=>
              /\ Qualifying(handlers[h].entries, Candidates[k])
              /\ \A j \in 1..(k - 1) : ~Qualifying(handlers[h].entries, Candidates[j])
    /\ handlers[h].encoding = "cp437" <=>
          \A k \in 1..Len(Candidates) : ~Qualifying(handlers[h].entries, Candidates[k])

\* The first entry's name decodes without error under c and under no other
\* candidate.
DecodesUnderOnly(entries, c) ==
    /\ entries /= <<>> /\ entries[1].encodable
    /\ \A k \in 1..Len(Candidates) :
          DecodeName(entries[1], Candidates[k]).ok <=> Candidates[k] = c

\* C22 as stated: without a flag the first candidate, in the order cp932,
\* shift_jis, euc_jp, that decodes the first name to text with a Japanese
\* character is selected, cp437 when none qualifies, and a name that decodes
\* under exactly one candidate selects that candidate.
C22_OnlyDecodingCandidateSelected ==
    \A h \in 1..Len(handlers) :
        (handlers[h].encoding /= "None" /\ ~HasFlag(handlers[h].entries)) =>
            /\ FirstQualifyingIsSelected(h)
            /\ \A k \in 1..Len(Candidates) :
                  DecodesUnderOnly(handlers[h].entries, Candidates[k])
                      => handlers[h].encoding = Candidates[k]

\* C22: without a flag the first candidate, in the order cp932, shift_jis,
\* euc_jp, that decodes the first name to text with a Hiragana, Katakana or
\* CJK-ideograph character is selected; cp437 when none qualifies, an empty
\* archive included.  A name that decodes under exactly one candidate
\* selects it only when that text has such a character.
C22_FirstJapaneseCandidate ==
    \A h \in 1..Len(handlers) :
        (handlers[h].encoding /= "None" /\ ~HasFlag(handlers[h].entries)) =>
            /\ FirstQualifyingIsSelected(h)
            /\ \A k \in 1..Len(Candidates) :
                  DecodesUnderOnly(handlers[h].entries, Candidates[k]) =>
                      handlers[h].encoding =
                          (IF DecodeName(handlers[h].entries[1], Candidates[k]).jp
                           THEN Candidates[k] ELSE "cp437")

\* The first name decodes under CP932 alone, to a circled digit: cp437.
C22_Witness ==
    \E h \in 1..Len(handlers) :
        /\ Len(handlers[h].entries) >= 1
        /\ handlers[h].entries[1] = NecName("wsm")
        /\ handlers[h].encoding = "cp437"

ResolvedEncodings == {"utf-8", "cp932", "shift_jis", "euc_jp", "cp437"}

\* C23: on one handler detection runs at most once over any sequence of
\* calls: once resolved, the cached encoding is one of utf-8, cp932,
\* shift_jis, euc_jp, cp437, is never reset, and later calls reuse it; a
\* call on one handler leaves the other handler's cache alone.
C23_DetectionRunsOncePerHandler ==
    [][\A h \in 1..Len(handlers) :
          /\ handlers'[h].detections <= 1
          /\ handlers[h].encoding /= "None" => handlers'[h] = handlers[h]
          /\ handlers'[h].encoding /= "None" => handlers'[h].encoding \in ResolvedEncodings
          /\ handlers'[h] /= handlers[h] =>
                /\ arg'.h = h
                /\ handlers'[h].detections = handlers[h].detections + 1
                /\ \A g \in 1..Len(handlers) : g /= h => handlers'[g] = handlers[g]]_vars

\* Both handlers have resolved, to different encodings, each once, and the
\* last call ran on a handler whose encoding was already cached.
C23_Witness ==
    /\ Len(handlers) = 2 /\ out.done
    /\ handlers[1].encoding = "cp932" /\ handlers[2].encoding = "euc_jp"
    /\ handlers[1].detections = 1 /\ handlers[2].detections = 1
    /\ out.before /= "None"

NameCalled ==
    /\ arg.given /\ out.done
    /\ arg.fn \in {"get_real_filename", "get_real_filename_for_txt"}

LastName == handlers[arg.h].entries[arg.n]

\* The last call ran detect_filename_encoding.
RanDetection == out.before = "None" /\ handlers[arg.h].encoding /= "None"

\* C24 as stated: a name that ends in none of .wsm, summary.xml, .txt is
\* returned unchanged by the resolver, without encoding detection.
C24_OtherNamesReturnedUnchanged ==
    (NameCalled /\ LastName.suffix = "other") =>
        (out.exc = "none" /\ out.v = "original" /\ ~RanDetection)

\* C24: get_real_filename decodes only names ending .wsm or summary.xml and
\* returns every other name, .txt included, unchanged;
\* get_real_filename_for_txt decodes only names ending .txt and returns None
\* for every other name; a name a function does not decode never triggers
\* encoding detection, one it decodes always has the encoding resolved.
C24_DecodingOnlyForOwnSuffix ==
    NameCalled =>
        /\ (arg.fn = "get_real_filename" /\ LastName.suffix \in {"txt", "other"}) =>
              (out.exc = "none" /\ out.v = "original" /\ ~RanDetection)
        /\ (arg.fn = "get_real_filename_for_txt" /\ LastName.suffix /= "txt") =>
              (out.exc = "none" /\ out.v = "None" /\ ~RanDetection)
        /\ (arg.fn = "get_real_filename" /\ LastName.suffix \in {"wsm", "summary.xml"}) =>
              handlers[arg.h].encoding /= "None"
        /\ (arg.fn = "get_real_filename_for_txt" /\ LastName.suffix = "txt") =>
              handlers[arg.h].encoding /= "None"

\* get_real_filename_for_txt on a name with another suffix, on a handler
\* that has not resolved its encoding: None, and still not resolved.
C24_Witness ==
    /\ NameCalled /\ arg.fn = "get_real_filename_for_txt"
    /\ LastName = AsciiName("other", FALSE)
    /\ out.v = "None" /\ handlers[arg.h].encoding = "None"

\* The resolved encoding, then cp932, shift_jis, euc_jp, utf-8 without it.
TryOrder(encoding) ==
    <<encoding>> \o SelectSeq(BackupEncodings, LAMBDA c : c /= encoding)

Validates(name, c) == DecodeName(name, c).ok /\ DecodeName(name, c).valid

\* C25: get_real_filename on a name with a suffix it handles returns
\* without raising, whatever the encoding cached: the decode under the first
\* of the resolved encoding, cp932, shift_jis, euc_jp, utf-8 that matches
\* the validator, or the original name when none does or when the name has
\* no CP437 bytes.
C25_FirstValidatingDecodeOrOriginal ==
    (NameCalled /\ arg.fn = "get_real_filename" /\ EndsWithScenarioSuffix(LastName)) =>
        /\ out.exc = "none"
        /\ out.v \in {"decoded", "original"}
        /\ out.v = "decoded" <=>
              /\ LastName.encodable
              /\ \E k \in 1..Len(TryOrder(handlers[arg.h].encoding)) :
                    Validates(LastName, TryOrder(handlers[arg.h].encoding)[k])
        /\ out.v = "decoded" =>
              \E k \in 1..Len(TryOrder(handlers[arg.h].encoding)) :
                  /\ out.codec = TryOrder(handlers[arg.h].encoding)[k]
                  /\ Validates(LastName, out.codec)
                  /\ \A j \in 1..(k - 1) :
                        ~Validates(LastName, TryOrder(handlers[arg.h].encoding)[j])

\* What does hold: the only exception is the UnicodeEncodeError of a name
\* without CP437 bytes; a decoded result always matches the validator; and
\* the backups are tried only when the first decode did not raise.
GetRealFilenameOutcome ==
    (NameCalled /\ arg.fn = "get_real_filename" /\ EndsWithScenarioSuffix(LastName)) =>
        /\ out.exc = (IF LastName.encodable THEN "none" ELSE "UnicodeEncodeError")
        /\ out.v = "decoded" => Validates(LastName, out.codec)
        /\ (LastName.encodable /\ ~DecodeName(LastName, handlers[arg.h].encoding).ok)
              => out.v = "original"

(***************************************************************************)
(* SpecFolder: parse_summary_from_folder (file_scanner.py 383-408) on one  *)
(* directory.  The directory holds regular files by name, and possibly a   *)
(* sub-directory named Summary.xml; names are looked up as written.        *)
(***************************************************************************)
FolderNames == {"Summary.xml", "summary.xml", "SUMMARY.XML", "readme.txt"}
FolderXml == {XmlGood, XmlMalformed, XmlUnknownEncoding, XmlBadNumber, XmlBare}
FolderPath == [file |-> 0, entry |-> "", dir |-> ""]

\* Mutant of IsFile: the name is matched without regard to case.
IsFileAnyCase(dir, name) ==
    \E n \in dir.names : LowerName(n) = LowerName(name)

\* os.path.isfile(os.path.join(folder_path, name))
IsFile(dir, name) == name \in dir.names

InitFolder ==
    /\ \E names \in SUBSET FolderNames, x \in FolderXml, subdir \in BOOLEAN,
          show_warning \in BOOLEAN :
          /\ ("Summary.xml" \in names) => ~subdir
          /\ folder = [present |-> TRUE, names |-> names, subdir |-> subdir, xml |-> x,
                       show_warning |-> show_warning]
    /\ folderResult = [done |-> FALSE]
    /\ warned = "none"
    /\ ReaderIdle
    /\ ScanIdle
    /\ UiIdle
    /\ HandlesIdle
    /\ TextIdle

ParseSummaryFromFolder ==
    /\ ~folderResult.done
    /\ IF ~IsFile(folder, "Summary.xml")
       THEN /\ warned' = IF folder.show_warning THEN "QMessageBox" ELSE "logger.error"
            /\ folderResult' = [done |-> TRUE, exc |-> "none",
                                v |-> default_extracted_info(FolderPath)]
       ELSE /\ warned' = warned
            /\ \E r \in {Stamp(ReadAndParse(folder.xml), FolderPath)} :
                  folderResult' = [done |-> TRUE, exc |-> r.exc, v |-> r.v]
    /\ UNCHANGED <<handlers, viewer, db, handles, arg, out, folder, cw, ret, summary, origin, walk, pc, idx, zip_files, files,
                   raised>>

NextFolder == ParseSummaryFromFolder

SpecFolder == InitFolder /\ [][NextFolder]_vars

FirstSummaryXml(entries) ==
    LET hits == {k \in 1..Len(entries) : EndsWithXml(entries[k])}
    IN  IF hits = {} THEN 0 ELSE MinOf(hits)

\* The record of .wsn file i when entry k of it is the summary used.
WsnRecord(i, k) ==
    FileData(Stamp(ReadAndParse(walk[i].archive.entries[k].xml), Path(i)).v, Path(i))

IsWsnWithSummaryAt(file, k) ==
    /\ file.lower = ".wsn" /\ file.exact /\ file.archive.zip
    /\ k /= 0
    /\ ~file.archive.entries[k].encrypted
    /\ ReadAndParse(file.archive.entries[k].xml).exc = "none"

\* C26: a .wsn is opened as an archive, the first entry whose name ends
\* with summary.xml in any letter case - one inside a sub-directory of the
\* archive included - is decoded and parsed, and the record has version Py.
C26_WsnUsesSummaryAtAnyDepth ==
    \A i \in 1..Len(walk) :
        (IsWsnWithSummaryAt(walk[i], FirstSummaryXml(walk[i].archive.entries)) /\ Handled(i))
            => \E n \in 1..Len(files) :
                  /\ files[n] = WsnRecord(i, FirstSummaryXml(walk[i].archive.entries))
                  /\ files[n].version = PyStr("Py")

\* What does hold: the entry named summary.xml at the top of the archive is
\* the one used, and every record of a .wsn has version Py.
WsnUsesTopLevelSummary ==
    \A i \in 1..Len(walk) :
        /\ (IsWsnWithSummaryAt(walk[i], SummaryOfWsn(walk[i].archive.entries)) /\ Handled(i))
              => \E n \in 1..Len(files) :
                    files[n] = WsnRecord(i, SummaryOfWsn(walk[i].archive.entries))
        /\ walk[i].lower = ".wsn"
              => \A n \in 1..Len(files) :
                    files[n].file_path.file = i => files[n].version = PyStr("Py")

\* The second loop is past zip i.
ZipDone(i) ==
    \/ pc = "returned"
    \/ pc = "zips" /\ \E j \in 1..Len(zip_files) : j < idx /\ zip_files[j] = i

\* Entry n of the archive is dispatched and parses to a non-empty dict.
GivesRecord(i, n) ==
    /\ Qualifies(walk[i].archive.entries[n])
    /\ Truthy(parse_summary_from_zip(walk[i].archive.entries[n],
                                     EntryPath(i, walk[i].archive.entries[n])).v)

RecordsOf(i) == {k \in 1..Len(files) : files[k].file_path.file = i}

SummaryTuple(data, backing, path) == read_summary_data(NewCWFile(data, backing, FALSE), path)

HasDecodedCoupons(rec, t) ==
    /\ rec.coupon_number = t.v[6]
    /\ rec.coupon_name = t.v[7]

HasDecodedTitle(rec, t) ==
    /\ rec.title = t.v[1] /\ rec.author = t.v[2] /\ rec.version = t.v[3]
    /\ rec.level_min = t.v[4] /\ rec.level_max = t.v[5]

\* C28: the record of a .wsm source that decodes - a plain file, or a
\* summary.wsm entry of a zip - has the coupon count and the coupon name
\* read from the stream, as it has the title, author, version and levels.
C28_WsmRecordHasDecodedCoupons ==
    \A k \in 1..Len(files) :
        LET i == files[k].file_path.file
        IN  /\ (walk[i].lower = ".wsm")
                  => /\ HasDecodedTitle(files[k], SummaryTuple(walk[i].data, "FileIO", Path(i)))
                     /\ HasDecodedCoupons(files[k], SummaryTuple(walk[i].data, "FileIO", Path(i)))
            /\ (walk[i].lower = ".zip" /\ LowerName(files[k].file_path.entry) = "summary.wsm")
                  => \E n \in 1..Len(walk[i].archive.entries) :
                        /\ files[k].file_path = EntryPath(i, walk[i].archive.entries[n])
                        /\ HasDecodedTitle(files[k],
                               SummaryTuple(walk[i].archive.entries[n].data, "BytesIO", files[k].file_path))
                        /\ HasDecodedCoupons(files[k],
                               SummaryTuple(walk[i].archive.entries[n].data, "BytesIO", files[k].file_path))

\* What does hold: title, author, version and levels are the decoded ones,
\* and the coupon count and name are 0 and '' whatever the stream holds.
WsmRecordHasNoCoupons ==
    \A k \in 1..Len(files) :
        LET i == files[k].file_path.file
        IN  /\ (walk[i].lower = ".wsm")
                  => /\ HasDecodedTitle(files[k], SummaryTuple(walk[i].data, "FileIO", Path(i)))
                     /\ SummaryTuple(walk[i].data, "FileIO", Path(i)).v[6] = PyInt(3)
                     /\ files[k].coupon_number = PyInt(0)
                     /\ files[k].coupon_name = PyStr(<<>>)
            /\ (walk[i].lower = ".zip" /\ LowerName(files[k].file_path.entry) = "summary.wsm")
                  => /\ files[k].coupon_number = PyInt(0)
                     /\ files[k].coupon_name = PyStr(<<>>)


(***************************************************************************)
(* SpecPages: the page state of FileViewer (file_viewer.py 570-579,        *)
(* 877-900, 972-985, 1028-1032, 1192-1249) under the handlers that move    *)
(* it, with the callers in main.py (refresh_files 272-281) and settings.py *)
(* (rescan_files 199-204).  A list is modelled by its length:              *)
(* viewer.search_results is len(self.search_results), db.count what        *)
(* fetch_file_data_count returns for the folder.                           *)
(***************************************************************************)
\* self.page_size = 30
page_size == 30

\* Lengths that fill a page exactly or by one row more, up to MaxPages pages.
RowCounts ==
    {0, 1} \cup {k * page_size + d : k \in 1..(MaxPages - 1), d \in {0, 1}}

\* FileViewer.__init__
NewViewer ==
    [loaded |-> FALSE, search_results |-> 0, is_search_active |-> FALSE,
     current_page |-> 1, total_files |-> 0, total_pages |-> 1]

\* SELECT COUNT(*) FROM file_data WHERE file_path LIKE folder/%
fetch_file_data_count(d) == d.count

\* max(1, (total_files + page_size - 1) // page_size)
TotalPages(total_files) == MaxOf({1, (total_files + page_size - 1) \div page_size})

WithTotals(v, total_files) ==
    [v EXCEPT !.total_files = total_files, !.total_pages = TotalPages(total_files)]

calculate_total_files_and_pages(v, d) ==
    WithTotals(v, IF v.is_search_active THEN v.search_results
                  ELSE fetch_file_data_count(d))

\* load_file_list recomputes the totals and shows the rows of current_page,
\* an empty table when the page has none; current_page is not changed.
load_file_list(v, d) ==
    [calculate_total_files_and_pages(v, d) EXCEPT !.loaded = TRUE]

previous_page(v, d) ==
    IF v.current_page > 1
    THEN load_file_list([v EXCEPT !.current_page = v.current_page - 1], d)
    ELSE v

next_page(v, d) ==
    IF v.current_page < v.total_pages
    THEN load_file_list([v EXCEPT !.current_page = v.current_page + 1], d)
    ELSE v

first_page(v, d) ==
    IF v.current_page /= 1
    THEN load_file_list([v EXCEPT !.current_page = 1], d)
    ELSE v

last_page(v, d) ==
    IF v.current_page /= v.total_pages
    THEN load_file_list([v EXCEPT !.current_page = v.total_pages], d)
    ELSE v

\* page is the number typed; a text that is no number changes nothing, as
\* a number out of range does.
jump_to_page(v, d, page) ==
    IF 1 <= page /\ page <= v.total_pages /\ v.current_page /= page
    THEN load_file_list([v EXCEPT !.current_page = page], d)
    ELSE v

sort_by_field(v, d) == load_file_list([v EXCEPT !.current_page = 1], d)

\* self.search_results = search_results; an empty list returns before
\* is_search_active is set and before load_file_list.
apply_search_results(v, d, n) ==
    IF n = 0 THEN [v EXCEPT !.search_results = 0]
    ELSE load_file_list([v EXCEPT !.search_results = n, !.is_search_active = TRUE], d)

\* main.py refresh_files: the search is dropped, then initialize_file_viewer
\* calls sort_by_field.
refresh_files(v, d) ==
    sort_by_field([v EXCEPT !.is_search_active = FALSE, !.search_results = 0], d)

InitPages ==
    /\ viewer = NewViewer
    /\ \E n \in RowCounts : db = [open |-> TRUE, count |-> n]
    /\ handlers = NoHandlers
    /\ ReaderIdle
    /\ ScanIdle
    /\ FolderIdle
    /\ HandlesIdle
    /\ TextIdle

PagesMoved(v) ==
    /\ viewer' = v
    /\ UNCHANGED <<handlers, db, handles, arg, out, cw, ret, summary, origin, walk,
                   pc, idx, zip_files, files, raised, folder, folderResult, warned>>

PreviousPage == PagesMoved(previous_page(viewer, db))
NextPage == PagesMoved(next_page(viewer, db))
FirstPage == PagesMoved(first_page(viewer, db))
LastPage == PagesMoved(last_page(viewer, db))
JumpToPage == \E page \in 0..(MaxPages + 1) : PagesMoved(jump_to_page(viewer, db, page))
SortByField == PagesMoved(sort_by_field(viewer, db))
RefreshFiles == PagesMoved(refresh_files(viewer, db))

\* The results of a search are rows of the catalog.
ApplySearchResults ==
    \E n \in RowCounts :
        /\ n <= db.count
        /\ PagesMoved(apply_search_results(viewer, db, n))

\* settings.py rescan_files: update_files_for_folder, then load_file_list.
\* The rescan leaves n rows under the folder: fewer when files are gone,
\* more when files are new.
RescanFiles ==
    \E n \in RowCounts :
        /\ db' = [db EXCEPT !.count = n]
        /\ viewer' = load_file_list(viewer, [db EXCEPT !.count = n])
        /\ UNCHANGED <<handlers, handles, arg, out, cw, ret, summary, origin, walk,
                       pc, idx, zip_files, files, raised, folder, folderResult, warned>>

NextPages ==
    \/ PreviousPage \/ NextPage \/ FirstPage \/ LastPage \/ JumpToPage
    \/ SortByField \/ ApplySearchResults \/ RescanFiles \/ RefreshFiles

SpecPages == InitPages /\ [][NextPages]_vars

\* Rows of the data set being shown.
ActiveCount ==
    IF viewer.is_search_active THEN viewer.search_results ELSE fetch_file_data_count(db)

\* C29: once load_file_list has run, after any sequence of page moves,
\* sorts, searches, shrinking rescans and refreshes, current_page is within
\* 1..total_pages and total_pages is max(1, ceil(total_files / page_size))
\* of the active data set.
C29_PageWithinTotalPages ==
    viewer.loaded =>
        /\ 1 <= viewer.current_page
        /\ viewer.current_page <= viewer.total_pages
        /\ viewer.total_pages = TotalPages(ActiveCount)

\* What does hold: current_page is at least 1, and total_pages is computed
\* from total_files as of the last load_file_list.
PageStateAfterLoad ==
    viewer.loaded =>
        /\ 1 <= viewer.current_page
        /\ viewer.total_pages = TotalPages(viewer.total_files)

\* The two ways current_page gets past total_pages: a rescan that leaves
\* fewer pages, and a search with fewer pages than the page shown.
PageStaysWithinWithoutShrinking ==
    [][(/\ viewer.current_page <= viewer.total_pages
        /\ viewer'.current_page > viewer'.total_pages)
          => viewer'.total_files < viewer.total_files]_vars


(***************************************************************************)
(* SpecCatalog: the file_data table (database.py 45-66, file_path its      *)
(* primary key) under update_files_for_folder (95-184) and                 *)
(* update_completed_status (186-191).  db.rows maps the key of a row to    *)
(* its columns; of these the title stands for the ones a scan fills, and   *)
(* is_completed for the ones the user sets.  A key is a path, or a path    *)
(* behind the prefix "Deleted: ".  Folder paths have no LIKE wildcard, no  *)
(* separator at their end, and differ in more than letter case, so         *)
(* `file_path LIKE folder/%` selects the rows whose path lies in the       *)
(* folder.                                                                 *)
(***************************************************************************)
CatalogPath(f, n) == [folder |-> f, name |-> n]
CatalogPaths == {CatalogPath("A", "x"), CatalogPath("A", "y"), CatalogPath("B", "x")}
Folders == {"A", "B"}
Titles == {"T1", "T2"}

Live(p) == [deleted |-> FALSE, path |-> p]
\* f"Deleted: {file_path}"
DeletedKey(p) == [deleted |-> TRUE, path |-> p]

\* A record of find_files_with_content, and the lists it may return for a
\* folder: the same path twice included, as two entries of a zip may share
\* a name.
ScannedFile(p, t) == [file_path |-> p, title |-> t]
Scans(f) ==
    SeqsUpTo({ScannedFile(p, t) : p \in {q \in CatalogPaths : q.folder = f}, t \in Titles},
             MaxScanned)

EmptyRows == [k \in {} |-> [title |-> "T1", is_completed |-> 0]]

\* SELECT file_path FROM file_data WHERE file_path LIKE folder/%
existing_file_paths(rows, f) ==
    {k.path : k \in {j \in DOMAIN rows : ~j.deleted /\ j.path.folder = f}}

new_file_paths(new_files) == {new_files[n].file_path : n \in 1..Len(new_files)}

\* UPDATE file_data SET file_path = new WHERE file_path = old
Rename(rows, old, new) ==
    [k \in (DOMAIN rows \ {old}) \cup {new} |-> IF k = new THEN rows[old] ELSE rows[k]]

\* One path of files_to_mark_as_deleted (111-122): skipped when a row is
\* already under the prefixed key.
MarkDeleted(st, p) ==
    IF DeletedKey(p) \in DOMAIN st.rows THEN st
    ELSE [st EXCEPT !.rows = Rename(st.rows, Live(p), DeletedKey(p)),
                    !.marked = st.marked \cup {p}]

\* The loop over the set: each path touches its own two keys only, so the
\* order does not matter.
AnyOf(S) == CHOOSE x \in S : TRUE

RECURSIVE MarkAsDeleted(_, _)
MarkAsDeleted(st, missing) ==
    IF missing = {} THEN st
    ELSE MarkAsDeleted(MarkDeleted(st, AnyOf(missing)), missing \ {AnyOf(missing)})

\* The columns written by the INSERT and by the restoring UPDATE: those of
\* the scan, and the defaults for the rest (is_completed 0).
ScannedRow(f) == [title |-> f.title, is_completed |-> 0]

\* Mutant of UpsertFile: a path is inserted whenever no row has it as key,
\* a row under the prefixed key or not.
UpsertFileInsertOnly(st, f) ==
    IF st.exc /= "none" \/ Live(f.file_path) \in DOMAIN st.rows THEN st
    ELSE [st EXCEPT !.rows = (Live(f.file_path) :> ScannedRow(f)) @@ st.rows,
                    !.inserted = st.inserted \cup {f.file_path}]

\* Body of the loop over new_files (124-170).  The UPDATE that restores a
\* row fails on the primary key when a row has the path as key already.
UpsertFile(st, f) ==
    IF st.exc /= "none" THEN st
    ELSE IF DeletedKey(f.file_path) \in DOMAIN st.rows
         THEN IF Live(f.file_path) \in DOMAIN st.rows
              THEN [st EXCEPT !.exc = "IntegrityError"]
              ELSE [st EXCEPT
                      !.rows = (Live(f.file_path) :> ScannedRow(f))
                                  @@ [k \in DOMAIN st.rows \ {DeletedKey(f.file_path)}
                                        |-> st.rows[k]],
                      !.restored = st.restored \cup {f.file_path}]
    ELSE IF Live(f.file_path) \in DOMAIN st.rows THEN st
    ELSE [st EXCEPT !.rows = (Live(f.file_path) :> ScannedRow(f)) @@ st.rows,
                    !.inserted = st.inserted \cup {f.file_path}]

RECURSIVE UpsertAll(_, _, _)
UpsertAll(st, new_files, k) ==
    IF k > Len(new_files) THEN st
    ELSE UpsertAll(UpsertFile(st, new_files[k]), new_files, k + 1)

Untouched(rows) == [exc |-> "none", rows |-> rows, marked |-> {}, restored |-> {}, inserted |-> {}]

\* commit, or rollback when an exception left the try block.
Committed(st, rows) == IF st.exc /= "none" THEN Untouched(rows) ELSE st

\* scan is what find_files_with_content did: [exc, files].  An exception
\* of the scan is caught before anything is written.
update_files_for_folder(rows, f, scan) ==
    IF scan.exc /= "none" THEN Untouched(rows)
    ELSE Committed(UpsertAll(MarkAsDeleted(Untouched(rows),
                                           existing_file_paths(rows, f)
                                              \ new_file_paths(scan.files)),
                             scan.files, 1),
                   rows)

ScanOutcomes(f) ==
    {[exc |-> "none", files |-> w] : w \in Scans(f)}
        \cup {[exc |-> "BadZipFile", files |-> <<>>]}

InitCatalog ==
    /\ db = [open |-> TRUE, rows |-> EmptyRows]
    /\ handlers = NoHandlers
    /\ viewer = NoViewer
    /\ ReaderIdle
    /\ ScanIdle
    /\ FolderIdle
    /\ HandlesIdle
    /\ TextIdle

\* out keeps what the last rescan logged: the paths it marked as deleted,
\* restored and inserted.
UpdateFilesForFolder ==
    \E f \in Folders : \E scan \in ScanOutcomes(f) :
        \E r \in {update_files_for_folder(db.rows, f, scan)} :
            /\ db' = [db EXCEPT !.rows = r.rows]
            /\ out' = [done |-> TRUE, marked |-> r.marked, restored |-> r.restored,
                       inserted |-> r.inserted]
            /\ UNCHANGED <<handlers, viewer, handles, arg, cw, ret, summary, origin, walk,
                           pc, idx, zip_files, files, raised, folder, folderResult, warned>>

\* UPDATE file_data SET is_completed = ? WHERE file_path = ?, on a row the
\* viewer lists.
UpdateCompletedStatus ==
    \E k \in DOMAIN db.rows : \E c \in {0, 1} :
        /\ ~k.deleted
        /\ db' = [db EXCEPT !.rows[k].is_completed = c]
        /\ UNCHANGED <<handlers, viewer, handles, arg, out, cw, ret, summary, origin, walk,
                       pc, idx, zip_files, files, raised, folder, folderResult, warned>>

NextCatalog == UpdateFilesForFolder \/ UpdateCompletedStatus

SpecCatalog == InitCatalog /\ [][NextCatalog]_vars

HasRow(rows, k) == k \in DOMAIN rows

\* What one rescan of folder f that found new_files does to the rows of f.
RescanRenames(rows, f, new_files, after) ==
    \A p \in {q \in CatalogPaths : q.folder = f} :
        /\ (HasRow(rows, Live(p)) /\ p \notin new_file_paths(new_files))
              => /\ ~HasRow(after, Live(p))
                 /\ HasRow(after, DeletedKey(p))
                 /\ after[DeletedKey(p)] = rows[Live(p)]
        /\ (HasRow(rows, DeletedKey(p)) /\ p \in new_file_paths(new_files))
              => /\ HasRow(after, Live(p))
                 /\ ~HasRow(after, DeletedKey(p))
                 /\ \E n \in 1..Len(new_files) :
                       /\ new_files[n].file_path = p
                       /\ after[Live(p)] = ScannedRow(new_files[n])
        /\ (HasRow(rows, Live(p)) /\ p \in new_file_paths(new_files))
              => /\ HasRow(after, Live(p))
                 /\ after[Live(p)] = rows[Live(p)]

\* C30: after any sequence of rescans no path has both a row keyed by it
\* and a row keyed "Deleted: " it; and a rescan renames the row of a path
\* it did not find to the prefixed key, renames the row of a path it found
\* again back instead of inserting a second one, and leaves the row of a
\* path still present as it is.
C30_NoRowAndDeletedRowForOnePath ==
    /\ \A p \in CatalogPaths :
          ~(HasRow(db.rows, Live(p)) /\ HasRow(db.rows, DeletedKey(p)))
    /\ \A f \in Folders : \A w \in Scans(f) :
          RescanRenames(db.rows, f, w,
                        update_files_for_folder(db.rows, f, [exc |-> "none", files |-> w]).rows)

\* A rescan has marked one path as deleted and restored another, next to a
\* row the user has completed.
C30_Witness ==
    /\ out.done /\ out.marked /= {} /\ out.restored /= {}
    /\ \E k \in DOMAIN db.rows : ~k.deleted /\ db.rows[k].is_completed = 1

====
